---- MODULE Spec2Model ----
(***************************************************************************)
(* A model of the LinkedIn Easy Apply bot's decision core:                 *)
(*   - question_answerer.py : QuestionAnswerer (answer, best_dropdown_     *)
(*     option and their helpers), over strings modelled as sequences of    *)
(*     one-character strings;                                              *)
(*   - form_filler.py : FormFiller (the page-fill pass, the navigation     *)
(*     probes and the fill_application step loop);                         *)
(*   - linkedin_bot.py : LinkedInBot._apply_to_job with                    *)
(*     _find_easy_apply_button and _close_modal, and logger.py's           *)
(*     log_application.                                                    *)
(* Four specifications share the module: QASpec (the answer engine as a    *)
(* pure function of its inputs), FillSpec (one page-fill pass over a       *)
(* form), Spec (the fill_application loop) and ApplySpec (the calls of     *)
(* _apply_to_job of a session).                                            *)
(***************************************************************************)
EXTENDS Integers, Sequences, FiniteSets, TLC

VARIABLES
    qaCall,     \* QASpec: the pending call on the QuestionAnswerer
    qaOut,      \* QASpec: what the call returned
    modalForm,  \* FillSpec: the fields of the modal, in document order
    fillCfg,    \* FillSpec: the name of the configuration of the FormFiller
    lastPass,   \* FillSpec: what the last page-fill pass did
    step,       \* Spec: the loop variable of fill_application
    pc,         \* Spec: where the run is in the loop body
    buttons,    \* Spec: the buttons of the page of this step
    clicked,    \* Spec: the navigation click of this step
    fills,      \* Spec: the page-fill passes begun so far
    clicks,     \* Spec: the navigation clicks done so far
    result,     \* Spec: "running", what the run returned, or what it raised
    applications_this_session,  \* ApplySpec: the counter of the bot
    csvRows,    \* ApplySpec: the Status of the rows appended to the CSV log
    applyCalls, \* ApplySpec: the calls of _apply_to_job begun so far
    applyPc,    \* ApplySpec: where the call is in _apply_to_job
    applyTrace, \* ApplySpec: what the call has done so far
    countAtCall,  \* ApplySpec: the counter when the call began
    applyResult,  \* ApplySpec: "none", what the call returned, or what it raised
    csvFile,    \* LogSpec: the file at csv_path
    _initialised_csvs,  \* LogSpec: the cache of initialised paths
    loggedRows, \* LogSpec: the rows of the completed log_application calls
    outside,    \* LogSpec: the file was edited or removed from outside
    now,        \* LogSpec: the clock
    summary,    \* LogSpec: what the last call, a weekly_summary, returned
    logOps,     \* LogSpec: the operations on the log so far
    runCfg,     \* RunSpec: --dry-run and the search section of the config
    max_applications,  \* RunSpec: the cap of the bot
    runPc,      \* RunSpec: where the session is
    loggedIn,   \* RunSpec: _login has succeeded
    searches,   \* RunSpec: the searches whose page was loaded, in order
    searchAt,   \* RunSpec: the title and location run() has come to
    resultsPage,  \* RunSpec: the results page of the search
    cards,      \* RunSpec: the job cards of the page still to come
    attempts,   \* RunSpec: the calls of _apply_to_job
    fillers,    \* RunSpec: the FormFillers run
    exitCode    \* RunSpec: "none", or what main returns

qaVars == <<qaCall, qaOut>>
fillVars == <<modalForm, fillCfg, lastPass>>
navVars == <<step, pc, buttons, clicked, fills, clicks, result>>
applyVars == <<applications_this_session, csvRows, applyCalls, applyPc,
               applyTrace, countAtCall, applyResult>>
logVars == <<csvFile, _initialised_csvs, loggedRows, outside, now, summary, logOps>>
runVars == <<runCfg, max_applications, runPc, loggedIn, searches, searchAt,
             resultsPage, cards, attempts, fillers, exitCode>>

vars == <<qaCall, qaOut, modalForm, fillCfg, lastPass,
          step, pc, buttons, clicked, fills, clicks, result,
          applications_this_session, csvRows, applyCalls, applyPc,
          applyTrace, countAtCall, applyResult,
          csvFile, _initialised_csvs, loggedRows, outside, now, summary, logOps,
          runCfg, max_applications, runPc, loggedIn, searches, searchAt,
          resultsPage, cards, attempts, fillers, exitCode>>

----------------------------------------------------------------------------
(* Bounds of the model.                                                    *)

MaxLabelWords == 2
MaxOptions == 2
MaxFields == 2
MaxButtons == 3
MaxCalls == 2
MaxLogOps == 3
MaxTicks == 1
MaxApplications == 2
MaxPages == 2
MaxCards == 2

----------------------------------------------------------------------------
(* Python strings: a string is a sequence of one-character strings.        *)

Whitespace == {" "}

Upper == <<"A", "B", "C", "D", "E", "F", "G", "H", "I", "J", "K", "L", "M", "N", "O", "P", "Q", "R", "S", "T", "U", "V", "W", "X", "Y", "Z">>
LowerOf == <<"a", "b", "c", "d", "e", "f", "g", "h", "i", "j", "k", "l", "m", "n", "o", "p", "q", "r", "s", "t", "u", "v", "w", "x", "y", "z">>
Digits == <<"0", "1", "2", "3", "4", "5", "6", "7", "8", "9">>

\* the characters the regular expression class \w matches
WordChars == {Upper[i] : i \in 1..26} \cup {LowerOf[i] : i \in 1..26}
                \cup {Digits[i] : i \in 1..10} \cup {"_"}

LowerChar(c) ==
    IF \E i \in 1..26 : Upper[i] = c
    THEN LowerOf[CHOOSE i \in 1..26 : Upper[i] = c]
    ELSE c

\* str.lower()
Lower(s) == [i \in 1..Len(s) |-> LowerChar(s[i])]

\* str.strip()
Strip(s) ==
    LET keep == {i \in 1..Len(s) : s[i] \notin Whitespace}
    IN  IF keep = {} THEN <<>>
        ELSE LET lo == CHOOSE i \in keep : \A j \in keep : i <= j
                 hi == CHOOSE i \in keep : \A j \in keep : i >= j
             IN  SubSeq(s, lo, hi)

\* needle in hay
Contains(needle, hay) ==
    \E off \in 0..(Len(hay) - Len(needle)) :
        SubSeq(hay, off + 1, off + Len(needle)) = needle

\* s.startswith(prefix)
StartsWith(s, prefix) ==
    Len(prefix) <= Len(s) /\ SubSeq(s, 1, Len(prefix)) = prefix

RECURSIVE Split(_)
\* str.split(): the maximal runs of non-whitespace characters, in order
Split(s) ==
    IF s = <<>> THEN <<>>
    ELSE IF s[1] \in Whitespace THEN Split(Tail(s))
    ELSE LET stops == {i \in 1..Len(s) : s[i] \in Whitespace}
             end == IF stops = {} THEN Len(s) + 1
                    ELSE CHOOSE i \in stops : \A j \in stops : i <= j
         IN  <<SubSeq(s, 1, end - 1)>> \o Split(SubSeq(s, end, Len(s)))

\* the regular expression \b at the gap after position i of q (0..Len(q))
WordBoundary(q, i) ==
    LET before == i >= 1 /\ q[i] \in WordChars
        after == i < Len(q) /\ q[i + 1] \in WordChars
    IN  before # after

WholeWordSearch_Substring(word, q) == Contains(word, q)

\* re.search(r"\b" + re.escape(word) + r"\b", q) is not None
WholeWordSearch(word, q) ==
    \E off \in 0..(Len(q) - Len(word)) :
        /\ SubSeq(q, off + 1, off + Len(word)) = word
        /\ WordBoundary(q, off)
        /\ WordBoundary(q, off + Len(word))

RECURSIVE IntToStr(_)
\* str(n) for a non-negative integer
IntToStr(n) ==
    IF n < 10 THEN <<Digits[n + 1]>>
    ELSE IntToStr(n \div 10) \o <<Digits[(n % 10) + 1]>>

RECURSIVE Join(_)
\* " ".join(words)
Join(words) ==
    IF words = <<>> THEN <<>>
    ELSE IF Len(words) = 1 THEN words[1]
    ELSE words[1] \o <<" ">> \o Join(Tail(words))

----------------------------------------------------------------------------
(* Python dictionaries: a dict is its sequence of <<key, value>> items in  *)
(* insertion order; an optional entry is <<>> (absent) or <<value>>.       *)

Absent == <<>>
Some(v) == <<v>>

\* d.get(key, default) on an optional entry
Get(entry, default) == IF entry = Absent THEN default ELSE entry[1]

KeyIndex(items, key) ==
    IF \E i \in 1..Len(items) : items[i][1] = key
    THEN CHOOSE i \in 1..Len(items) : items[i][1] = key
    ELSE 0

\* d[key] = value: an existing key keeps its position and takes the value
DictPut(items, key, value) ==
    IF KeyIndex(items, key) = 0 THEN Append(items, <<key, value>>)
    ELSE [items EXCEPT ![KeyIndex(items, key)] = <<key, value>>]

RECURSIVE LowerKeys(_, _)
\* {k.lower(): v for k, v in cfg.items()}, built onto acc
LowerKeys(cfg, acc) ==
    IF cfg = <<>> THEN acc
    ELSE LowerKeys(Tail(cfg), DictPut(acc, Lower(cfg[1][1]), cfg[1][2]))

----------------------------------------------------------------------------
(* question_answerer.py                                                    *)

\* QuestionAnswerer.__init__
QuestionAnswerer(config) ==
    [personal |-> config.personal,
     background |-> config.background,
     eligibility |-> config.eligibility,
     yes_no_map |-> LowerKeys(config.answers.yes_no, <<>>),
     numeric_map |-> LowerKeys(config.answers.numeric, <<>>),
     star_map |-> LowerKeys(config.answers.star_answers, <<>>)]

\* index of the first item of a rule table whose key is a substring of q
FirstKeyIn(map, q) ==
    IF \E i \in 1..Len(map) : Contains(map[i][1], q)
    THEN CHOOSE i \in 1..Len(map) :
            /\ Contains(map[i][1], q)
            /\ \A j \in 1..(i - 1) : ~Contains(map[j][1], q)
    ELSE 0

YesNoStarters ==
    {<<"a", "r", "e", " ">>, <<"i", "s", " ">>, <<"d", "o", " ">>, <<"w", "i", "l", "l", " ">>, <<"h", "a", "v", "e", " ">>, <<"c", "a", "n", " ">>, <<"w", "e", "r", "e", " ">>, <<"d", "i", "d", " ">>}

_is_yes_no_question(q) == \E s \in YesNoStarters : StartsWith(q, s)

\* _lookup_yes_no with the two eligibility facts exchanged
_lookup_yes_no_FactsSwapped(self, q) ==
    IF FirstKeyIn(self.yes_no_map, q) # 0
    THEN self.yes_no_map[FirstKeyIn(self.yes_no_map, q)][2]
    ELSE IF Contains(<<"s", "p", "o", "n", "s", "o", "r", "s", "h", "i", "p">>, q) \/ Contains(<<"v", "i", "s", "a">>, q)
    THEN Get(self.eligibility.legally_authorized, TRUE)
    ELSE IF Contains(<<"a", "u", "t", "h", "o", "r", "i", "z", "e", "d">>, q) \/ Contains(<<"e", "l", "i", "g", "i", "b", "l", "e">>, q)
    THEN Get(self.eligibility.require_sponsorship, FALSE)
    ELSE TRUE

\* lines 118-128
_lookup_yes_no(self, q) ==
    IF FirstKeyIn(self.yes_no_map, q) # 0
    THEN self.yes_no_map[FirstKeyIn(self.yes_no_map, q)][2]
    ELSE IF Contains(<<"s", "p", "o", "n", "s", "o", "r", "s", "h", "i", "p">>, q) \/ Contains(<<"v", "i", "s", "a">>, q)
    THEN Get(self.eligibility.require_sponsorship, FALSE)
    ELSE IF Contains(<<"a", "u", "t", "h", "o", "r", "i", "z", "e", "d">>, q) \/ Contains(<<"e", "l", "i", "g", "i", "b", "l", "e">>, q)
    THEN Get(self.eligibility.legally_authorized, TRUE)
    ELSE TRUE

\* _lookup_numeric testing 'notice' before 'experience'
_lookup_numeric_NoticeFirst(self, q) ==
    IF FirstKeyIn(self.numeric_map, q) # 0
    THEN self.numeric_map[FirstKeyIn(self.numeric_map, q)][2]
    ELSE IF Contains(<<"n", "o", "t", "i", "c", "e">>, q)
    THEN Get(self.background.notice_period_days, 0)
    ELSE IF Contains(<<"e", "x", "p", "e", "r", "i", "e", "n", "c", "e">>, q)
    THEN Get(self.background.years_of_experience, 2)
    ELSE IF Contains(<<"s", "a", "l", "a", "r", "y">>, q) \/ Contains(<<"c", "t", "c">>, q)
            \/ Contains(<<"c", "o", "m", "p", "e", "n", "s", "a", "t", "i", "o", "n">>, q)
    THEN Get(self.background.expected_salary, 600000)
    ELSE 0

\* lines 130-141
_lookup_numeric(self, q) ==
    IF FirstKeyIn(self.numeric_map, q) # 0
    THEN self.numeric_map[FirstKeyIn(self.numeric_map, q)][2]
    ELSE IF Contains(<<"e", "x", "p", "e", "r", "i", "e", "n", "c", "e">>, q)
    THEN Get(self.background.years_of_experience, 2)
    ELSE IF Contains(<<"n", "o", "t", "i", "c", "e">>, q)
    THEN Get(self.background.notice_period_days, 0)
    ELSE IF Contains(<<"s", "a", "l", "a", "r", "y">>, q) \/ Contains(<<"c", "t", "c">>, q)
            \/ Contains(<<"c", "o", "m", "p", "e", "n", "s", "a", "t", "i", "o", "n">>, q)
    THEN Get(self.background.expected_salary, 600000)
    ELSE 0

_dropdown_hint(self, q) ==
    IF Contains(<<"c", "o", "u", "n", "t", "r", "y">>, q) THEN Get(self.personal.country, <<"I", "n", "d", "i", "a">>)
    ELSE IF Contains(<<"c", "u", "r", "r", "e", "n", "c", "y">>, q) THEN Get(self.background.currency, <<"I", "N", "R">>)
    ELSE IF Contains(<<"e", "d", "u", "c", "a", "t", "i", "o", "n">>, q) \/ Contains(<<"d", "e", "g", "r", "e", "e">>, q)
    THEN Get(self.background.highest_education, <<"B", "a", "c", "h", "e", "l", "o", "r">>)
    ELSE IF Contains(<<"e", "x", "p", "e", "r", "i", "e", "n", "c", "e">>, q)
    THEN IntToStr(Get(self.background.years_of_experience, 2))
    ELSE <<>>

\* the two canned paragraphs of _free_text_answer, each as one token
CoverLetterParagraph == <<"[I am deeply passionate about cybersecurity ...]">>
GenericParagraph == <<"[I am a cybersecurity professional ...]">>

\* the test of line 159: does the narrative rule keyed `key` match q
StarRuleMatches(key, q) ==
    \E i \in 1..Len(Split(key)) : WholeWordSearch(Split(key)[i], q)

FirstStarRule(map, q) ==
    IF \E i \in 1..Len(map) : StarRuleMatches(map[i][1], q)
    THEN CHOOSE i \in 1..Len(map) :
            /\ StarRuleMatches(map[i][1], q)
            /\ \A j \in 1..(i - 1) : ~StarRuleMatches(map[j][1], q)
    ELSE 0

_free_text_answer(self, q) ==
    IF FirstStarRule(self.star_map, q) # 0
    THEN Strip(self.star_map[FirstStarRule(self.star_map, q)][2])
    ELSE IF Contains(<<"f", "i", "r", "s", "t", " ", "n", "a", "m", "e">>, q) THEN Get(self.personal.first_name, <<>>)
    ELSE IF Contains(<<"l", "a", "s", "t", " ", "n", "a", "m", "e">>, q) \/ Contains(<<"s", "u", "r", "n", "a", "m", "e">>, q)
    THEN Get(self.personal.last_name, <<>>)
    ELSE IF Contains(<<"e", "m", "a", "i", "l">>, q) THEN Get(self.personal.email, <<>>)
    ELSE IF Contains(<<"p", "h", "o", "n", "e">>, q) \/ Contains(<<"m", "o", "b", "i", "l", "e">>, q)
    THEN Get(self.personal.phone, <<>>)
    ELSE IF Contains(<<"c", "i", "t", "y">>, q) THEN Get(self.personal.city, <<"B", "a", "n", "g", "a", "l", "o", "r", "e">>)
    ELSE IF Contains(<<"l", "i", "n", "k", "e", "d", "i", "n">>, q)
    THEN Get(self.personal.linkedin_profile, <<>>)
    ELSE IF Contains(<<"g", "i", "t", "h", "u", "b">>, q) THEN Get(self.personal.github_url, <<>>)
    ELSE IF Contains(<<"p", "o", "r", "t", "f", "o", "l", "i", "o">>, q) \/ Contains(<<"w", "e", "b", "s", "i", "t", "e">>, q)
    THEN Get(self.personal.portfolio_url, <<>>)
    ELSE IF Contains(<<"s", "a", "l", "a", "r", "y">>, q) \/ Contains(<<"c", "t", "c">>, q)
            \/ Contains(<<"c", "o", "m", "p", "e", "n", "s", "a", "t", "i", "o", "n">>, q)
    THEN IntToStr(Get(self.background.expected_salary, 600000))
    ELSE IF Contains(<<"n", "o", "t", "i", "c", "e">>, q)
    THEN IntToStr(Get(self.background.notice_period_days, 0))
    ELSE IF Contains(<<"e", "x", "p", "e", "r", "i", "e", "n", "c", "e">>, q)
    THEN IntToStr(Get(self.background.years_of_experience, 2))
    ELSE IF Contains(<<"c", "o", "v", "e", "r", " ", "l", "e", "t", "t", "e", "r">>, q) \/ Contains(<<"m", "o", "t", "i", "v", "a", "t", "i", "o", "n">>, q)
    THEN CoverLetterParagraph
    ELSE GenericParagraph

\* answer rendering a boolean as str(bool)
answer_StrOfBool(self, question_text, field_type) ==
    LET q == Strip(Lower(question_text))
    IN  IF field_type = "boolean"
        THEN (IF _lookup_yes_no(self, q) THEN <<"T", "r", "u", "e">> ELSE <<"F", "a", "l", "s", "e">>)
        ELSE IF field_type = "numeric" THEN IntToStr(_lookup_numeric(self, q))
        ELSE IF field_type = "dropdown" THEN _dropdown_hint(self, q)
        ELSE _free_text_answer(self, q)

\* QuestionAnswerer.answer
answer(self, question_text, field_type) ==
    LET q == Strip(Lower(question_text))
    IN  IF field_type = "boolean"
        THEN (IF _lookup_yes_no(self, q) THEN <<"Y", "e", "s">> ELSE <<"N", "o">>)
        ELSE IF field_type = "numeric" THEN IntToStr(_lookup_numeric(self, q))
        ELSE IF field_type = "dropdown" THEN _dropdown_hint(self, q)
        ELSE _free_text_answer(self, q)

\* the loop without its `return`: the last option whose test holds
FirstOption_Last(hits) ==
    IF \E i \in 1..Len(hits) : hits[i]
    THEN CHOOSE i \in 1..Len(hits) :
            hits[i] /\ \A j \in (i + 1)..Len(hits) : ~hits[j]
    ELSE 0

\* `for opt in options: if test(opt): return opt`: the index of the first
\* option whose test holds, 0 if there is none (hits[i] is the test of option i)
FirstOption(hits) ==
    IF \E i \in 1..Len(hits) : hits[i]
    THEN CHOOSE i \in 1..Len(hits) : hits[i] /\ \A j \in 1..(i - 1) : ~hits[j]
    ELSE 0

\* YesNoOption with the fallback returning the wanted text itself
YesNoOption_ReturnsWant(self, q, options) ==
    LET want == IF _lookup_yes_no(self, q) THEN <<"Y", "e", "s">> ELSE <<"N", "o">>
        Test(opt) == Contains(Lower(want), Lower(opt))
    IN  IF FirstOption([i \in 1..Len(options) |-> Test(options[i])]) # 0
        THEN options[FirstOption([i \in 1..Len(options) |-> Test(options[i])])]
        ELSE want

\* lines 74-79: the Yes/No branch
YesNoOption(self, q, options) ==
    LET want == IF _lookup_yes_no(self, q) THEN <<"Y", "e", "s">> ELSE <<"N", "o">>
        Test(opt) == Contains(Lower(want), Lower(opt))
    IN  IF FirstOption([i \in 1..Len(options) |-> Test(options[i])]) # 0
        THEN options[FirstOption([i \in 1..Len(options) |-> Test(options[i])])]
        ELSE options[1]

\* lines 82-86
EducationOption(self, q, options) ==
    LET target == Lower(Get(self.background.highest_education, <<>>))
        Test(opt) == target # <<>> /\ Contains(target, Lower(opt))
    IN  IF Contains(<<"e", "d", "u", "c", "a", "t", "i", "o", "n">>, q) \/ Contains(<<"d", "e", "g", "r", "e", "e">>, q)
        THEN FirstOption([i \in 1..Len(options) |-> Test(options[i])])
        ELSE 0

\* lines 89-93
ExperienceOption(self, q, options) ==
    LET years == IntToStr(Get(self.background.years_of_experience, 2))
        Test(opt) == Contains(years, opt)
    IN  IF Contains(<<"e", "x", "p", "e", "r", "i", "e", "n", "c", "e">>, q) THEN FirstOption([i \in 1..Len(options) |-> Test(options[i])]) ELSE 0

\* lines 96-100
CountryOption(self, q, options) ==
    LET country == Lower(Get(self.personal.country, <<"I", "n", "d", "i", "a">>))
        Test(opt) == Contains(country, Lower(opt))
    IN  IF Contains(<<"c", "o", "u", "n", "t", "r", "y">>, q) THEN FirstOption([i \in 1..Len(options) |-> Test(options[i])]) ELSE 0

\* CurrencyOption without the test that the label mentions "currency"
CurrencyOption_NoKeywordTest(self, q, options) ==
    LET currency == Lower(Get(self.background.currency, <<"I", "N", "R">>))
        Test(opt) == Contains(currency, Lower(opt))
    IN  FirstOption([i \in 1..Len(options) |-> Test(options[i])])

\* lines 103-107
CurrencyOption(self, q, options) ==
    LET currency == Lower(Get(self.background.currency, <<"I", "N", "R">>))
        Test(opt) == Contains(currency, Lower(opt))
    IN  IF Contains(<<"c", "u", "r", "r", "e", "n", "c", "y">>, q) THEN FirstOption([i \in 1..Len(options) |-> Test(options[i])]) ELSE 0

\* best_dropdown_option consulting the keyword rules before the Yes/No branch
best_dropdown_option_KeywordsFirst(self, question_text, options) ==
    LET q == Lower(question_text)
    IN  IF options = <<>> THEN <<>>
        ELSE IF EducationOption(self, q, options) # 0
        THEN options[EducationOption(self, q, options)]
        ELSE IF ExperienceOption(self, q, options) # 0
        THEN options[ExperienceOption(self, q, options)]
        ELSE IF CountryOption(self, q, options) # 0
        THEN options[CountryOption(self, q, options)]
        ELSE IF CurrencyOption(self, q, options) # 0
        THEN options[CurrencyOption(self, q, options)]
        ELSE IF _is_yes_no_question(q) THEN YesNoOption(self, q, options)
        ELSE options[1]

\* QuestionAnswerer.best_dropdown_option
best_dropdown_option(self, question_text, options) ==
    LET q == Lower(question_text)
    IN  IF options = <<>> THEN <<>>
        ELSE IF _is_yes_no_question(q) THEN YesNoOption(self, q, options)
        ELSE IF EducationOption(self, q, options) # 0
        THEN options[EducationOption(self, q, options)]
        ELSE IF ExperienceOption(self, q, options) # 0
        THEN options[ExperienceOption(self, q, options)]
        ELSE IF CountryOption(self, q, options) # 0
        THEN options[CountryOption(self, q, options)]
        ELSE IF CurrencyOption(self, q, options) # 0
        THEN options[CurrencyOption(self, q, options)]
        ELSE options[1]

----------------------------------------------------------------------------
(* Configurations (config.yaml as loaded): the profile of the unit tests,  *)
(* an empty profile, and a profile of rules chosen to exercise the rule    *)
(* tables.                                                                 *)

EmptyConfig ==
    [personal |-> [first_name |-> Absent, last_name |-> Absent,
                   email |-> Absent, phone |-> Absent, city |-> Absent,
                   country |-> Absent, linkedin_profile |-> Absent,
                   github_url |-> Absent, portfolio_url |-> Absent],
     background |-> [years_of_experience |-> Absent,
                     highest_education |-> Absent,
                     notice_period_days |-> Absent,
                     expected_salary |-> Absent, currency |-> Absent],
     eligibility |-> [legally_authorized |-> Absent,
                      require_sponsorship |-> Absent],
     answers |-> [yes_no |-> <<>>, numeric |-> <<>>, star_answers |-> <<>>],
     documents |-> [cv_path |-> Absent, cover_letter_path |-> Absent]]

\* SAMPLE_CONFIG of tests/test_question_answerer.py
SampleConfig ==
    [personal |-> [first_name |-> Some(<<"J", "o", "h", "n">>), last_name |-> Some(<<"D", "o", "e">>),
                   email |-> Some(<<"j", "o", "h", "n", "@", "e", "x", "a", "m", "p", "l", "e", ".", "c", "o", "m">>),
                   phone |-> Some(<<"+", "9", "1", " ", "9", "9", "9", "9", "9", "9", "9", "9", "9", "9">>),
                   city |-> Some(<<"B", "a", "n", "g", "a", "l", "o", "r", "e">>), country |-> Some(<<"I", "n", "d", "i", "a">>),
                   linkedin_profile |-> Some(<<"h", "t", "t", "p", "s", ":", "/", "/", "l", "i", "n", "k", "e", "d", "i", "n", ".", "c", "o", "m", "/", "i", "n", "/", "j", "o", "h", "n", "d", "o", "e">>),
                   github_url |-> Absent, portfolio_url |-> Absent],
     background |-> [years_of_experience |-> Some(3),
                     highest_education |-> Some(<<"B", "a", "c", "h", "e", "l", "o", "r", "'", "s", " ", "D", "e", "g", "r", "e", "e">>),
                     notice_period_days |-> Some(30),
                     expected_salary |-> Some(800000),
                     currency |-> Some(<<"I", "N", "R">>)],
     eligibility |-> [legally_authorized |-> Some(TRUE),
                      require_sponsorship |-> Some(FALSE)],
     answers |-> [yes_no |-> << <<<<"a", "u", "t", "h", "o", "r", "i", "z", "e", "d", " ", "t", "o", " ", "w", "o", "r", "k">>, TRUE>>,
                                <<<<"r", "e", "q", "u", "i", "r", "e", " ", "s", "p", "o", "n", "s", "o", "r", "s", "h", "i", "p">>, FALSE>>,
                                <<<<"w", "i", "l", "l", "i", "n", "g", " ", "t", "o", " ", "r", "e", "l", "o", "c", "a", "t", "e">>, TRUE>> >>,
                  numeric |-> << <<<<"y", "e", "a", "r", "s", " ", "o", "f", " ", "e", "x", "p", "e", "r", "i", "e", "n", "c", "e">>, 3>>,
                                 <<<<"n", "o", "t", "i", "c", "e", " ", "p", "e", "r", "i", "o", "d">>, 30>> >>,
                  star_answers |-> << <<<<"t", "e", "l", "l", " ", "m", "e", " ", "a", "b", "o", "u", "t", " ", "y", "o", "u", "r", "s", "e", "l", "f">>,
                                        <<"I", " ", "a", "m", " ", "a", " ", "c", "y", "b", "e", "r", "s", "e", "c", "u", "r", "i", "t", "y", " ", "p", "r", "o", "f", "e", "s", "s", "i", "o", "n", "a", "l", ".">>>> >>],
     documents |-> [cv_path |-> Absent, cover_letter_path |-> Absent]]

\* a profile whose rule tables have several rules, multi-word keys and
\* values that differ from the defaults
RulesConfig ==
    [SampleConfig EXCEPT
        !.background.highest_education = Some(<<"M", "a", "s", "t", "e", "r">>),
        !.eligibility.require_sponsorship = Some(TRUE),
        !.eligibility.legally_authorized = Some(FALSE),
        !.answers.yes_no = << <<<<"y", "o", "u">>, FALSE>>, <<<<"C", "u", "r", "r", "e", "n", "c", "y">>, TRUE>> >>,
        !.answers.numeric = << <<<<"N", "o", "t", "i", "c", "e">>, 7>>, <<<<"s", "a", "l", "a", "r", "y">>, 5>>,
                               <<<<"n", "o", "t", "i", "c", "e">>, 9>> >>,
        !.answers.star_answers = << <<<<"t", "e", "l", "l", " ", "m", "e">>, <<" ", "N", "a", "r", "r", "a", "t", "i", "v", "e", " ", "o", "n", "e", ".", " ">>>>,
                                    <<<<"a", "r", "t">>, <<"N", "a", "r", "r", "a", "t", "i", "v", "e", " ", "t", "w", "o", ".">>>> >>,
        !.documents = [cv_path |-> Some(<<"c", "v", ".", "p", "d", "f">>),
                       cover_letter_path |-> Some(<<"/", "h", "o", "m", "e", "/", "u", "/", "c", "o", "v", "e", "r", ".", "p", "d", "f">>)]]

\* a state names its configuration
ConfigNames == {"empty", "sample", "rules"}

ConfigOf(name) ==
    CASE name = "empty" -> EmptyConfig
      [] name = "sample" -> SampleConfig
      [] name = "rules" -> RulesConfig

----------------------------------------------------------------------------
(* form_filler.py: the fields of the modal and the page-fill pass.         *)
(*                                                                         *)
(* A form is the sequence of the modal's field elements in document order. *)
(* A field's `fault` says how the element misbehaves: it goes stale before *)
(* one of the operations the code performs on it (its first read, its      *)
(* is_selected read, its label resolution, its mutation) and raises        *)
(* StaleElementReferenceException from then on, or it cannot be interacted *)
(* with and raises ElementNotInteractableException on every mutation.      *)

Stale == "StaleElementReferenceException"
NotInteractable == "ElementNotInteractableException"

FieldKinds == {"text", "select", "radio", "checkbox", "textarea", "file"}

FieldFaults ==
    {"stale_at_read", "stale_at_selected", "stale_at_label",
     "stale_at_mutate", "not_interactable"}

\* the element raises Stale at an operation of the given stage or a later one
IsStaleAt(f, stage) ==
    \/ f.fault = "stale_at_read"
    \/ f.fault = "stale_at_selected" /\ stage # "read"
    \/ f.fault = "stale_at_label" /\ stage \in {"label", "mutate"}
    \/ f.fault = "stale_at_mutate" /\ stage = "mutate"

\* what click(), clear(), send_keys() or select_by_visible_text() raises
MutationFault(f) ==
    IF IsStaleAt(f, "mutate") THEN Stale
    ELSE IF f.fault = "not_interactable" THEN NotInteractable
    ELSE "none"

\* FormFiller.__init__
FormFiller(config) ==
    [qa |-> QuestionAnswerer(config),
     docs |-> config.documents,
     personal |-> config.personal]

\* _get_label_for asking for the placeholder before the aria-label
_get_label_for_PlaceholderFirst(element) ==
    IF Get(element.placeholder, <<>>) # <<>>
    THEN Get(element.placeholder, <<>>)
    ELSE IF Get(element.aria_label, <<>>) # <<>>
    THEN Get(element.aria_label, <<>>)
    ELSE IF Get(element.id, <<>>) # <<>> /\ element.label_for # Absent
    THEN Strip(element.label_for[1])
    ELSE IF element.ancestor_label # Absent
    THEN Strip(element.ancestor_label[1])
    ELSE IF element.preceding_label # Absent
    THEN Strip(element.preceding_label[1])
    ELSE <<>>

\* FormFiller._get_label_for, on an element that is not stale
_get_label_for(element) ==
    IF Get(element.aria_label, <<>>) # <<>> THEN Get(element.aria_label, <<>>)
    ELSE IF Get(element.placeholder, <<>>) # <<>>
    THEN Get(element.placeholder, <<>>)
    ELSE IF Get(element.id, <<>>) # <<>> /\ element.label_for # Absent
    THEN Strip(element.label_for[1])
    ELSE IF element.ancestor_label # Absent
    THEN Strip(element.ancestor_label[1])
    ELSE IF element.preceding_label # Absent
    THEN Strip(element.preceding_label[1])
    ELSE <<>>

\* the outcome of the body of one `try:` on one field
Skipped(f) == [field |-> f, ops |-> <<>>, raised |-> "none"]
Raised(f, exc) == [field |-> f, ops |-> <<>>, raised |-> exc]
Mutated(f, ops) == [field |-> f, ops |-> ops, raised |-> "none"]

\* `except (...): continue`
Except(outcome, caught) ==
    IF outcome.raised \in caught THEN [outcome EXCEPT !.raised = "none"]
    ELSE outcome

\* TextInputBody without the `already filled` test of lines 94-96
TextInputBody_NoFilledTest(self, inp) ==
    IF IsStaleAt(inp, "read") THEN Raised(inp, Stale)
    ELSE IF ~inp.displayed \/ ~inp.enabled THEN Skipped(inp)
    ELSE IF IsStaleAt(inp, "label") THEN Raised(inp, Stale)
    ELSE LET ans == answer(self.qa, _get_label_for(inp), "text")
         IN  IF ans = <<>> THEN Skipped(inp)
             ELSE IF MutationFault(inp) # "none"
             THEN Raised(inp, MutationFault(inp))
             ELSE Mutated([inp EXCEPT !.value = ans],
                          <<"clear", "send_keys">>)

\* _fill_text_inputs, lines 92-103: the body of the try for one input
TextInputBody(self, inp) ==
    IF IsStaleAt(inp, "read") THEN Raised(inp, Stale)
    ELSE IF ~inp.displayed \/ ~inp.enabled THEN Skipped(inp)
    ELSE IF Strip(inp.value) # <<>> THEN Skipped(inp)
    ELSE IF IsStaleAt(inp, "label") THEN Raised(inp, Stale)
    ELSE LET ans == answer(self.qa, _get_label_for(inp), "text")
         IN  IF ans = <<>> THEN Skipped(inp)
             ELSE IF MutationFault(inp) # "none"
             THEN Raised(inp, MutationFault(inp))
             ELSE Mutated([inp EXCEPT !.value = ans],
                          <<"clear", "send_keys">>)

\* line 115: the eligible options of a select
EligibleOptions(sel) ==
    LET keep == SelectSeq(sel.options,
                    LAMBDA o : Strip(o.text) # <<>>
                               /\ o.value \notin {<<>>, <<"S", "e", "l", "e", "c", "t", " ", "a", "n", " ", "o", "p", "t", "i", "o", "n">>})
    IN  [i \in 1..Len(keep) |-> keep[i].text]

\* _fill_selects, lines 111-120
SelectBody(self, sel) ==
    IF IsStaleAt(sel, "read") THEN Raised(sel, Stale)
    ELSE IF ~sel.displayed \/ ~sel.enabled THEN Skipped(sel)
    ELSE IF IsStaleAt(sel, "label") THEN Raised(sel, Stale)
    ELSE LET options == EligibleOptions(sel)
         IN  IF options = <<>> THEN Skipped(sel)
             ELSE IF MutationFault(sel) # "none"
             THEN Raised(sel, MutationFault(sel))
             ELSE Mutated([sel EXCEPT !.value =
                            best_dropdown_option(self.qa, _get_label_for(sel),
                                                 options)],
                          <<"select_by_visible_text">>)

ConsentKeywords == {<<"a", "g", "r", "e", "e">>, <<"c", "o", "n", "s", "e", "n", "t">>, <<"a", "c", "k", "n", "o", "w", "l", "e", "d", "g", "e">>, <<"c", "o", "n", "f", "i", "r", "m">>}

\* CheckboxBody without the is_selected test of line 164
CheckboxBody_NoSelectedTest(self, cb) ==
    IF IsStaleAt(cb, "read") THEN Raised(cb, Stale)
    ELSE IF ~cb.displayed THEN Skipped(cb)
    ELSE IF IsStaleAt(cb, "label") THEN Raised(cb, Stale)
    ELSE IF \A kw \in ConsentKeywords :
                ~Contains(kw, Lower(_get_label_for(cb)))
    THEN Skipped(cb)
    ELSE IF MutationFault(cb) # "none" THEN Raised(cb, MutationFault(cb))
    ELSE Mutated([cb EXCEPT !.selected = ~cb.selected], <<"click">>)

\* _fill_checkboxes, lines 159-166
CheckboxBody(self, cb) ==
    IF IsStaleAt(cb, "read") THEN Raised(cb, Stale)
    ELSE IF ~cb.displayed THEN Skipped(cb)
    ELSE IF IsStaleAt(cb, "label") THEN Raised(cb, Stale)
    ELSE IF \A kw \in ConsentKeywords :
                ~Contains(kw, Lower(_get_label_for(cb)))
    THEN Skipped(cb)
    ELSE IF cb.selected THEN Skipped(cb)
    ELSE IF MutationFault(cb) # "none" THEN Raised(cb, MutationFault(cb))
    ELSE Mutated([cb EXCEPT !.selected = ~cb.selected], <<"click">>)

\* _fill_textareas, lines 174-183
TextareaBody(self, ta) ==
    IF IsStaleAt(ta, "read") THEN Raised(ta, Stale)
    ELSE IF ~ta.displayed \/ ~ta.enabled THEN Skipped(ta)
    ELSE IF Strip(ta.value) # <<>> THEN Skipped(ta)
    ELSE IF IsStaleAt(ta, "label") THEN Raised(ta, Stale)
    ELSE LET ans == answer(self.qa, _get_label_for(ta), "text")
         IN  IF ans = <<>> THEN Skipped(ta)
             ELSE IF MutationFault(ta) # "none"
             THEN Raised(ta, MutationFault(ta))
             ELSE Mutated([ta EXCEPT !.value = ans],
                          <<"clear", "send_keys">>)

\* the working directory and the files on disk (os.path.abspath, os.path.exists)
Cwd == <<"/", "h", "o", "m", "e", "/", "u">>
ExistingPaths == {<<"/", "h", "o", "m", "e", "/", "u", "/", "c", "v", ".", "p", "d", "f">>}

\* lines 197-200
AbsPath(path) ==
    IF path = <<>> THEN <<>>
    ELSE IF StartsWith(path, <<"/">>) THEN path
    ELSE Cwd \o <<"/">> \o path

\* lines 192-195
UploadPath(self, fi) ==
    IF Contains(<<"c", "o", "v", "e", "r">>, Lower(_get_label_for(fi)))
    THEN Get(self.docs.cover_letter_path, <<>>)
    ELSE Get(self.docs.cv_path, <<>>)

\* FileBody without the os.path.exists test of line 202
FileBody_NoExistsTest(self, fi) ==
    IF IsStaleAt(fi, "label") THEN Raised(fi, Stale)
    ELSE LET abs_path == AbsPath(UploadPath(self, fi))
         IN  IF abs_path = <<>>
             THEN Skipped(fi)
             ELSE IF MutationFault(fi) # "none"
             THEN Raised(fi, MutationFault(fi))
             ELSE Mutated([fi EXCEPT !.value = abs_path], <<"send_keys">>)

\* _handle_file_uploads, lines 191-206
FileBody(self, fi) ==
    IF IsStaleAt(fi, "label") THEN Raised(fi, Stale)
    ELSE LET abs_path == AbsPath(UploadPath(self, fi))
         IN  IF abs_path = <<>> \/ abs_path \notin ExistingPaths
             THEN Skipped(fi)
             ELSE IF MutationFault(fi) # "none"
             THEN Raised(fi, MutationFault(fi))
             ELSE Mutated([fi EXCEPT !.value = abs_path], <<"send_keys">>)

\* one iteration of the loop of a sub-pass: the try body and its except
FieldStep(self, kind, f) ==
    CASE kind = "text" -> Except(TextInputBody(self, f), {Stale, NotInteractable})
      [] kind = "select" -> Except(SelectBody(self, f), {Stale, NotInteractable})
      [] kind = "checkbox" ->
            Except(CheckboxBody(self, f), {Stale, NotInteractable})
      [] kind = "textarea" ->
            Except(TextareaBody(self, f), {Stale, NotInteractable})
      [] kind = "file" -> Except(FileBody(self, f), {Stale, NotInteractable})

\* the state of a pass: the form, the mutations done so far as <<op, index>>,
\* the fields whose handling has ended, and the exception that left the pass
StartPass(form) == [form |-> form, ops |-> <<>>, reached |-> {}, raised |-> "none"]

TagOps(ops, i) == [k \in 1..Len(ops) |-> <<ops[k], i>>]

RECURSIVE FillKind(_, _, _, _)
\* `for el in modal.find_elements(<kind>): try: ... except: continue`
FillKind(self, kind, pass, i) ==
    IF pass.raised # "none" \/ i > Len(pass.form) THEN pass
    ELSE IF pass.form[i].kind # kind THEN FillKind(self, kind, pass, i + 1)
    ELSE LET r == FieldStep(self, kind, pass.form[i])
         IN  FillKind(self, kind,
                      [form |-> [pass.form EXCEPT ![i] = r.field],
                       ops |-> pass.ops \o TagOps(r.ops, i),
                       reached |-> IF r.raised = "none"
                                   THEN pass.reached \cup {i}
                                   ELSE pass.reached,
                       raised |-> r.raised],
                      i + 1)

_fill_text_inputs(self, pass) == FillKind(self, "text", pass, 1)
_fill_selects(self, pass) == FillKind(self, "select", pass, 1)
_fill_checkboxes(self, pass) == FillKind(self, "checkbox", pass, 1)
_fill_textareas(self, pass) == FillKind(self, "textarea", pass, 1)
_handle_file_uploads(self, pass) == FillKind(self, "file", pass, 1)

\* indices of the form in document order
Indices(form) == [i \in 1..Len(form) |-> i]

\* lines 127-133: the radios whose name could be read (a radio that is
\* already stale raises in get_attribute and is left out of every group)
NamedRadios(form) ==
    SelectSeq(Indices(form),
              LAMBDA i : form[i].kind = "radio" /\ ~IsStaleAt(form[i], "read"))

RECURSIVE GroupNames(_, _, _)
\* the keys of `groups` in insertion order
GroupNames(form, radios, k) ==
    IF k > Len(radios) THEN <<>>
    ELSE IF \E j \in 1..(k - 1) : form[radios[j]].name = form[radios[k]].name
    THEN GroupNames(form, radios, k + 1)
    ELSE <<form[radios[k]].name>> \o GroupNames(form, radios, k + 1)

\* groups[name]
Members(form, name) ==
    SelectSeq(NamedRadios(form), LAMBDA i : form[i].name = name)

RECURSIVE AnySelected(_, _, _)
\* line 137: any(r.is_selected() for r in radio_list): "yes", "no", or the
\* exception a stale member raises
AnySelected(form, members, k) ==
    IF k > Len(members) THEN "no"
    ELSE IF IsStaleAt(form[members[k]], "selected") THEN Stale
    ELSE IF form[members[k]].selected THEN "yes"
    ELSE AnySelected(form, members, k + 1)

\* lines 144-146
SiblingLabel(radio) ==
    IF radio.sibling_label = Absent THEN <<>>
    ELSE Strip(radio.sibling_label[1])

\* line 147
RadioMatches(ans, sib_label) ==
    \/ Contains(Lower(ans), Lower(sib_label))
    \/ Contains(Lower(sib_label), Lower(ans))

\* the browser's effect of clicking radio i: it becomes the selected member
\* of its group
ClickRadio(form, i) ==
    [j \in 1..Len(form) |->
        IF j = i THEN [form[j] EXCEPT !.selected = TRUE]
        ELSE IF form[j].kind = "radio" /\ form[j].name = form[i].name
        THEN [form[j] EXCEPT !.selected = FALSE]
        ELSE form[j]]

RECURSIVE ClickFirstMatch(_, _, _, _)
\* lines 142-153: click the first member whose sibling label matches
ClickFirstMatch(pass, members, k, ans) ==
    IF k > Len(members) THEN pass
    ELSE IF IsStaleAt(pass.form[members[k]], "label")
    THEN [pass EXCEPT !.raised = Stale]
    ELSE IF ~RadioMatches(ans, SiblingLabel(pass.form[members[k]]))
    THEN ClickFirstMatch(pass, members, k + 1, ans)
    ELSE IF IsStaleAt(pass.form[members[k]], "mutate")
    THEN [pass EXCEPT !.raised = Stale]
    ELSE IF pass.form[members[k]].fault = "not_interactable"
    THEN ClickFirstMatch(pass, members, k + 1, ans)
    ELSE [pass EXCEPT !.form = ClickRadio(pass.form, members[k]),
                      !.ops = Append(pass.ops, <<"click", members[k]>>)]

\* RadioGroupStep without the `already selected` test of lines 136-138
RadioGroupStep_NoSelectedTest(self, pass, members) ==
    IF IsStaleAt(pass.form[members[1]], "label")
    THEN [pass EXCEPT !.raised = Stale]
    ELSE LET ans == answer(self.qa,
                           _get_label_for(pass.form[members[1]]),
                           "boolean")
         IN  ClickFirstMatch(pass, members, 1, ans)

\* lines 136-153: one group
RadioGroupStep(self, pass, members) ==
    LET selected == AnySelected(pass.form, members, 1)
    IN  IF selected = Stale THEN [pass EXCEPT !.raised = Stale]
        ELSE IF selected = "yes" THEN pass
        ELSE IF IsStaleAt(pass.form[members[1]], "label")
        THEN [pass EXCEPT !.raised = Stale]
        ELSE LET ans == answer(self.qa,
                               _get_label_for(pass.form[members[1]]),
                               "boolean")
             IN  ClickFirstMatch(pass, members, 1, ans)

Range(seq) == {seq[k] : k \in 1..Len(seq)}

RECURSIVE FillGroups(_, _, _, _, _)
\* line 135: for name, radio_list in groups.items()
FillGroups(self, pass, form0, names, k) ==
    IF pass.raised # "none" \/ k > Len(names) THEN pass
    ELSE LET r == RadioGroupStep(self, pass, Members(form0, names[k]))
         IN  FillGroups(self,
                        IF r.raised = "none"
                        THEN [r EXCEPT !.reached =
                                @ \cup Range(Members(form0, names[k]))]
                        ELSE r,
                        form0, names, k + 1)

\* FormFiller._fill_radios
_fill_radios(self, pass) ==
    IF pass.raised # "none" THEN pass
    ELSE FillGroups(self,
            [pass EXCEPT !.reached =
                @ \cup {i \in 1..Len(pass.form) :
                            pass.form[i].kind = "radio"
                            /\ IsStaleAt(pass.form[i], "read")}],
            pass.form,
            GroupNames(pass.form, NamedRadios(pass.form), 1), 1)

\* _fill_current_page going on after the TimeoutException of the wait
_fill_current_page_IgnoresTimeout(self, form, modal_found) ==
    _handle_file_uploads(self,
        _fill_textareas(self,
            _fill_checkboxes(self,
                _fill_radios(self,
                    _fill_selects(self,
                        _fill_text_inputs(self, StartPass(form)))))))

\* FormFiller._fill_current_page; modal_found is whether the wait of lines
\* 74-76 found the modal before its timeout
_fill_current_page(self, form, modal_found) ==
    IF ~modal_found THEN StartPass(form)
    ELSE _handle_file_uploads(self,
            _fill_textareas(self,
                _fill_checkboxes(self,
                    _fill_radios(self,
                        _fill_selects(self,
                            _fill_text_inputs(self, StartPass(form)))))))

----------------------------------------------------------------------------
(* QASpec: the answer engine applied to bounded inputs.  Init draws one    *)
(* call (the function, the configuration and its arguments); the actions   *)
(* apply the function and record what it returns.                          *)

DropdownWords ==
    {<<"A", "r", "e">>, <<"y", "o", "u">>, <<"E", "d", "u", "c", "a", "t", "i", "o", "n">>, <<"e", "x", "p", "e", "r", "i", "e", "n", "c", "e">>, <<"c", "o", "u", "n", "t", "r", "y">>, <<"c", "u", "r", "r", "e", "n", "c", "y">>,
     <<"U", "n", "k", "n", "o", "w", "n">>}

AnswerWords ==
    {<<"t", "e", "l", "l">>, <<"m", "e">>, <<"s", "t", "a", "r", "t">>, <<"a", "r", "t">>, <<"e", "m", "a", "i", "l">>, <<"U", "n", "k", "n", "o", "w", "n">>, <<"V", "i", "s", "a">>,
     <<"a", "u", "t", "h", "o", "r", "i", "z", "e", "d">>, <<"e", "x", "p", "e", "r", "i", "e", "n", "c", "e">>, <<"n", "o", "t", "i", "c", "e">>, <<"s", "a", "l", "a", "r", "y">>, <<"y", "o", "u">>}

OptionPool == {<<"Y", "e", "s">>, <<"N", "o">>, <<"I", "n", "d", "i", "a", " ", "(", "I", "N", "R", ")">>, <<"I", "N", "R">>, <<"3", " ", "y", "e", "a", "r", "s">>}

FieldTypes == {"text", "boolean", "numeric", "dropdown"}

NoCall ==
    [fn |-> "none", config |-> "empty", question_text |-> <<>>,
     options |-> <<>>, field_type |-> "text"]

\* a call of best_dropdown_option(label, options)
IsDropdownCall(call) ==
    \E c \in ConfigNames, n \in 0..MaxLabelWords, m \in 0..MaxOptions :
        \E ws \in [1..n -> DropdownWords], o \in [1..m -> OptionPool] :
            call = [fn |-> "best_dropdown_option", config |-> c,
                    question_text |-> Join(ws), options |-> o,
                    field_type |-> "dropdown"]

\* a call of answer(label, field_type)
IsAnswerCall(call) ==
    \E c \in ConfigNames, n \in 0..MaxLabelWords, t \in FieldTypes :
        \E ws \in [1..n -> AnswerWords] :
            call = [fn |-> "answer", config |-> c, question_text |-> Join(ws),
                    options |-> <<>>, field_type |-> t]

Pending == [done |-> FALSE, value |-> <<>>]
Returned(v) == [done |-> TRUE, value |-> v]

QAInit ==
    /\ IsDropdownCall(qaCall) \/ IsAnswerCall(qaCall)
    /\ qaOut = Pending

QAIdle ==
    /\ qaCall = NoCall
    /\ qaOut = Pending

CallBestDropdownOption ==
    /\ qaCall.fn = "best_dropdown_option"
    /\ ~qaOut.done
    /\ qaOut' = Returned(best_dropdown_option(QuestionAnswerer(ConfigOf(qaCall.config)),
                                              qaCall.question_text,
                                              qaCall.options))
    /\ UNCHANGED <<qaCall, fillVars, navVars, applyVars, logVars, runVars>>

CallAnswer ==
    /\ qaCall.fn = "answer"
    /\ ~qaOut.done
    /\ qaOut' = Returned(answer(QuestionAnswerer(ConfigOf(qaCall.config)),
                                qaCall.question_text, qaCall.field_type))
    /\ UNCHANGED <<qaCall, fillVars, navVars, applyVars, logVars, runVars>>

QANext == CallBestDropdownOption \/ CallAnswer

----------------------------------------------------------------------------
(* FillSpec: page-fill passes over a bounded form.  The form is drawn from *)
(* a pool of fields, with at most one field of the form faulty; the pass   *)
(* runs again on the page it left, as when the step loop re-enters a page. *)

BlankField(kind) ==
    [kind |-> kind, displayed |-> TRUE, enabled |-> TRUE, value |-> <<>>,
     selected |-> FALSE, name |-> "", options |-> <<>>,
     aria_label |-> Absent, placeholder |-> Absent, id |-> Absent,
     label_for |-> Absent, ancestor_label |-> Absent,
     preceding_label |-> Absent, sibling_label |-> Absent, fault |-> "none"]

CurrencyOptions ==
    <<[text |-> <<"S", "e", "l", "e", "c", "t", " ", "a", "n", " ", "o", "p", "t", "i", "o", "n">>, value |-> <<"S", "e", "l", "e", "c", "t", " ", "a", "n", " ", "o", "p", "t", "i", "o", "n">>],
      [text |-> <<"U", "S", "D">>, value |-> <<"u", "s", "d">>],
      [text |-> <<"I", "N", "R">>, value |-> <<"i", "n", "r">>]>>

FieldPool ==
    {[BlankField("text") EXCEPT !.aria_label = Some(<<"F", "i", "r", "s", "t", " ", "n", "a", "m", "e">>)],
     [BlankField("text") EXCEPT !.placeholder = Some(<<"E", "m", "a", "i", "l">>),
                                !.value = <<" ", "a", "@", "b", ".", "c", " ">>],
     [BlankField("text") EXCEPT !.id = Some(<<"f", "3">>),
                                !.label_for = Some(<<" ", "C", "i", "t", "y", " ">>),
                                !.value = <<" ">>],
     [BlankField("text") EXCEPT !.aria_label = Some(<<"P", "h", "o", "n", "e">>),
                                !.displayed = FALSE],
     [BlankField("textarea") EXCEPT !.ancestor_label = Some(<<"T", "e", "l", "l", " ", "m", "e", " ", "m", "o", "r", "e">>)],
     [BlankField("textarea") EXCEPT !.aria_label = Some(<<"M", "o", "t", "i", "v", "a", "t", "i", "o", "n">>),
                                    !.value = <<"x">>],
     [BlankField("select") EXCEPT !.preceding_label = Some(<<"P", "r", "e", "f", "e", "r", "r", "e", "d", " ", "c", "u", "r", "r", "e", "n", "c", "y">>),
                                  !.options = CurrencyOptions],
     [BlankField("select") EXCEPT !.aria_label = Some(<<"C", "u", "r", "r", "e", "n", "c", "y">>),
                                  !.options = CurrencyOptions,
                                  !.value = <<"U", "S", "D">>],
     [BlankField("radio") EXCEPT !.name = "g1",
                                 !.preceding_label = Some(<<"A", "r", "e", " ", "y", "o", "u", " ", "a", "u", "t", "h", "o", "r", "i", "z", "e", "d", "?">>),
                                 !.sibling_label = Some(<<"Y", "e", "s">>)],
     [BlankField("radio") EXCEPT !.name = "g1",
                                 !.sibling_label = Some(<<"N", "o">>)],
     [BlankField("radio") EXCEPT !.name = "g1",
                                 !.preceding_label = Some(<<"A", "r", "e", " ", "y", "o", "u", " ", "a", "u", "t", "h", "o", "r", "i", "z", "e", "d", "?">>),
                                 !.sibling_label = Some(<<"Y", "e", "s">>),
                                 !.selected = TRUE],
     [BlankField("radio") EXCEPT !.name = "g1"],
     [BlankField("checkbox") EXCEPT !.aria_label = Some(<<"I", " ", "a", "g", "r", "e", "e">>)],
     [BlankField("checkbox") EXCEPT !.aria_label = Some(<<"I", " ", "C", "o", "n", "f", "i", "r", "m">>),
                                    !.selected = TRUE],
     [BlankField("checkbox") EXCEPT !.aria_label = Some(<<"S", "u", "b", "s", "c", "r", "i", "b", "e">>)],
     [BlankField("text") EXCEPT !.aria_label = Some(<<"G", "i", "t", "H", "u", "b">>)],
     [BlankField("file") EXCEPT !.aria_label = Some(<<"R", "e", "s", "u", "m", "e">>)],
     [BlankField("file") EXCEPT !.placeholder = Some(<<"C", "o", "v", "e", "r", " ", "l", "e", "t", "t", "e", "r">>)]}

\* the forms in which one field is faulty
\* the faults that differ in effect on a field of the kind: only a radio is
\* read (its name) before its is_selected is read
FaultsOf(kind) ==
    IF kind = "radio" THEN FieldFaults
    ELSE FieldFaults \ {"stale_at_selected"}

\* form is healthy, or healthy but for one faulty field
IsFormOver(pool, form) ==
    \E n \in 0..MaxFields :
        \E healthy \in [1..n -> pool] :
            \/ form = healthy
            \/ \E i \in 1..n :
                \E flt \in FaultsOf(healthy[i].kind) :
                    form = [healthy EXCEPT ![i].fault = flt]

IsInitialForm(form) == IsFormOver(FieldPool, form)

\* text inputs that differ in where their label is: two attributes, an
\* empty aria-label, a label bound by id beside an ancestor label, an id
\* without a label for it, a label bound by id whose text is blank, a
\* preceding label only, no label at all
LabelPool ==
    {[BlankField("text") EXCEPT !.aria_label = Some(<<"F", "i", "r", "s", "t", " ", "n", "a", "m", "e">>),
                                !.placeholder = Some(<<"E", "m", "a", "i", "l">>)],
     [BlankField("text") EXCEPT !.aria_label = Some(<<>>),
                                !.placeholder = Some(<<"E", "m", "a", "i", "l">>),
                                !.ancestor_label = Some(<<"C", "i", "t", "y">>)],
     [BlankField("text") EXCEPT !.id = Some(<<"f", "3">>),
                                !.label_for = Some(<<" ", "C", "i", "t", "y", " ">>),
                                !.ancestor_label = Some(<<"P", "h", "o", "n", "e">>)],
     [BlankField("text") EXCEPT !.id = Some(<<"f", "4">>),
                                !.ancestor_label = Some(<<" ", "P", "h", "o", "n", "e", " ">>),
                                !.preceding_label = Some(<<"E", "m", "a", "i", "l">>)],
     [BlankField("text") EXCEPT !.id = Some(<<"f", "5">>),
                                !.label_for = Some(<<" ">>),
                                !.ancestor_label = Some(<<"P", "h", "o", "n", "e">>)],
     [BlankField("text") EXCEPT !.preceding_label = Some(<<" ", "L", "a", "s", "t", " ", "n", "a", "m", "e", " ">>)],
     BlankField("text")}

\* the fields of the forms filled with the profile without documents
SamplePool == LabelPool \cup {f \in FieldPool : f.kind = "file"}


\* the profile with rules and documents on the forms of FieldPool, and the
\* profile without documents on the forms of SamplePool
FillConfigs == {"rules", "sample"}

\* FormFiller(driver, config) for each configuration
EmptyFiller == FormFiller(EmptyConfig)
SampleFiller == FormFiller(SampleConfig)
RulesFiller == FormFiller(RulesConfig)

FillerOf(name) ==
    CASE name = "empty" -> EmptyFiller
      [] name = "sample" -> SampleFiller
      [] name = "rules" -> RulesFiller

NoPass == [ran |-> FALSE, modal_found |-> FALSE, ops |-> <<>>,
           reached |-> {}, raised |-> "none"]

FillInit ==
    /\ fillCfg \in FillConfigs
    /\ IF fillCfg = "rules" THEN IsInitialForm(modalForm)
       ELSE IsFormOver(SamplePool, modalForm)
    /\ lastPass = NoPass

FillIdle ==
    /\ modalForm = <<>>
    /\ fillCfg = "empty"
    /\ lastPass = NoPass

\* one call of _fill_current_page on the page as the previous pass left it
FillCurrentPage ==
    /\ lastPass.raised = "none"
    /\ \E modal_found \in BOOLEAN :
        \E pass \in {_fill_current_page(FillerOf(fillCfg), modalForm,
                                        modal_found)} :
            /\ modalForm' = pass.form
            /\ lastPass' = [ran |-> TRUE, modal_found |-> modal_found,
                            ops |-> pass.ops, reached |-> pass.reached,
                            raised |-> pass.raised]
    /\ UNCHANGED <<fillCfg, qaVars, navVars, applyVars, logVars, runVars>>

FillNext == FillCurrentPage

----------------------------------------------------------------------------
(* form_filler.py: the navigation probes and the fill_application loop.    *)
(*                                                                         *)
(* The page's buttons are a sequence in document order; find_element with  *)
(* //button[contains(., text)] returns the first button whose text         *)
(* contains the text.  A button's fault is the exception it raises: Stale  *)
(* from is_displayed() on, NotInteractable from click().                   *)

MAX_STEPS == 15

\* driver.find_element(By.XPATH, "//button[contains(., '<text>')]"): the index
\* of the first match, 0 for NoSuchElementException
FindElement(page, text) ==
    IF \E i \in 1..Len(page) : Contains(text, page[i].text)
    THEN CHOOSE i \in 1..Len(page) :
            /\ Contains(text, page[i].text)
            /\ \A j \in 1..(i - 1) : ~Contains(text, page[j].text)
    ELSE 0

NothingClicked == [clicked |-> 0, raised |-> "none"]

RECURSIVE Probe(_, _, _)
\* `for text in texts: try: btn = find_element(...); if btn.is_displayed()
\* and btn.is_enabled(): btn.click(); return True; except
\* NoSuchElementException: continue; return False`
Probe(page, texts, k) ==
    IF k > Len(texts) THEN NothingClicked
    ELSE LET i == FindElement(page, texts[k])
         IN  IF i = 0 THEN Probe(page, texts, k + 1)
             ELSE IF page[i].fault = Stale
             THEN [clicked |-> 0, raised |-> Stale]
             ELSE IF ~(page[i].displayed /\ page[i].enabled)
             THEN Probe(page, texts, k + 1)
             ELSE IF page[i].fault = NotInteractable
             THEN [clicked |-> 0, raised |-> NotInteractable]
             ELSE [clicked |-> i, raised |-> "none"]

SubmitTexts == <<<<"S", "u", "b", "m", "i", "t", " ", "a", "p", "p", "l", "i", "c", "a", "t", "i", "o", "n">>, <<"S", "u", "b", "m", "i", "t">>>>
NextTexts == <<<<"N", "e", "x", "t">>, <<"C", "o", "n", "t", "i", "n", "u", "e">>, <<"R", "e", "v", "i", "e", "w">>>>
ReviewTexts == <<<<"R", "e", "v", "i", "e", "w">>>>

\* FormFiller._try_submit
_try_submit(page) == Probe(page, SubmitTexts, 1)

\* FormFiller._try_next
_try_next(page) == Probe(page, NextTexts, 1)

\* FormFiller._try_review
_try_review(page) == Probe(page, ReviewTexts, 1)

\* line 47 with one iteration too many
LoopContinues_OneMore(s) == s <= MAX_STEPS

\* line 47: for step in range(max_steps)
LoopContinues(s) == s < MAX_STEPS

----------------------------------------------------------------------------
(* Spec: one run of fill_application.  The surface shows a page at every   *)
(* step: the form and whether the modal is found, and the buttons.         *)

Button(text, displayed, enabled, fault) ==
    [text |-> text, displayed |-> displayed, enabled |-> enabled,
     fault |-> fault]

ButtonPool ==
    {Button(<<"S", "u", "b", "m", "i", "t", " ", "a", "p", "p", "l", "i", "c", "a", "t", "i", "o", "n">>, TRUE, TRUE, "none"),
     Button(<<"S", "u", "b", "m", "i", "t", " ", "a", "p", "p", "l", "i", "c", "a", "t", "i", "o", "n">>, FALSE, TRUE, "none"),
     Button(<<"S", "u", "b", "m", "i", "t">>, TRUE, TRUE, "none"),
     Button(<<"S", "u", "b", "m", "i", "t">>, TRUE, FALSE, "none"),
     Button(<<"S", "u", "b", "m", "i", "t">>, TRUE, TRUE, Stale),
     Button(<<"N", "e", "x", "t">>, TRUE, TRUE, "none"),
     Button(<<"N", "e", "x", "t">>, FALSE, TRUE, "none"),
     Button(<<"N", "e", "x", "t">>, TRUE, TRUE, NotInteractable),
     Button(<<"C", "o", "n", "t", "i", "n", "u", "e">>, TRUE, TRUE, "none"),
     Button(<<"C", "o", "n", "t", "i", "n", "u", "e">>, TRUE, FALSE, "none"),
     Button(<<"R", "e", "v", "i", "e", "w">>, TRUE, TRUE, "none"),
     Button(<<"R", "e", "v", "i", "e", "w">>, FALSE, TRUE, "none")}

FirstNameInput == [BlankField("text") EXCEPT !.aria_label = Some(<<"F", "i", "r", "s", "t", " ", "n", "a", "m", "e">>)]

StaleRadio ==
    [BlankField("radio") EXCEPT !.name = "g1", !.sibling_label = Some(<<"Y", "e", "s">>),
                                !.fault = "stale_at_selected"]

\* what the surface shows the fill pass: a form, and whether the modal is found
NavSurfaces ==
    {[form |-> <<FirstNameInput>>, modal_found |-> TRUE],
     [form |-> <<FirstNameInput>>, modal_found |-> FALSE],
     [form |-> <<StaleRadio>>, modal_found |-> TRUE]}

NoClick == [probe |-> "none", text |-> <<>>]

NavInit ==
    /\ step = 0
    /\ pc = "fill"
    /\ buttons = <<>>
    /\ clicked = NoClick
    /\ fills = 0
    /\ clicks = 0
    /\ result = "running"
    /\ modalForm = <<>>
    /\ fillCfg = "rules"
    /\ lastPass = NoPass

NavIdle ==
    /\ step = 0
    /\ pc = "idle"
    /\ buttons = <<>>
    /\ clicked = NoClick
    /\ fills = 0
    /\ clicks = 0
    /\ result = "running"

\* an exception leaves fill_application
Raise(exc) ==
    /\ result' = exc
    /\ pc' = "done"
    /\ UNCHANGED <<clicked, clicks, step>>

\* a probe clicked button i: `return True` of the probe
Click(probe, i) ==
    /\ clicked' = [probe |-> probe, text |-> buttons[i].text]
    /\ clicks' = clicks + 1

\* lines 59 and 61: continue with the next iteration, on the page that the
\* surface shows next
Continue ==
    /\ step' = step + 1
    /\ pc' = "fill"
    /\ buttons' = <<>>
    /\ UNCHANGED result

\* lines 47-52: the loop begins an iteration and fills the page it is shown
StepFillPage ==
    /\ pc = "fill"
    /\ LoopContinues(step)
    /\ \E surface \in NavSurfaces :
        \E pass \in {_fill_current_page(FillerOf(fillCfg), surface.form,
                                        surface.modal_found)} :
            /\ modalForm' = pass.form
            /\ lastPass' = [ran |-> TRUE, modal_found |-> surface.modal_found,
                            ops |-> pass.ops, reached |-> pass.reached,
                            raised |-> pass.raised]
            /\ IF pass.raised # "none"
               THEN /\ result' = pass.raised
                    /\ pc' = "done"
               ELSE /\ pc' = "submit"
                    /\ UNCHANGED result
    /\ \E n \in 0..MaxButtons : buttons' \in [1..n -> ButtonPool]
    /\ fills' = fills + 1
    /\ clicked' = NoClick
    /\ UNCHANGED <<step, clicks, fillCfg, qaVars, applyVars, logVars, runVars>>

\* lines 55-57 with `continue` in the place of `return True`
StepTrySubmit_GoesOn ==
    /\ pc = "submit"
    /\ \E r \in {_try_submit(buttons)} :
           IF r.raised # "none"
           THEN Raise(r.raised) /\ UNCHANGED buttons
           ELSE IF r.clicked # 0
           THEN Click("submit", r.clicked) /\ Continue
           ELSE /\ pc' = "next"
                /\ UNCHANGED <<clicked, clicks, result, step, buttons>>
    /\ UNCHANGED <<fills, fillVars, qaVars, applyVars, logVars, runVars>>

\* lines 55-57
StepTrySubmit ==
    /\ pc = "submit"
    /\ \E r \in {_try_submit(buttons)} :
           IF r.raised # "none"
           THEN Raise(r.raised)
           ELSE IF r.clicked # 0
           THEN /\ Click("submit", r.clicked)
                /\ result' = "True"
                /\ pc' = "done"
                /\ UNCHANGED step
           ELSE /\ pc' = "next"
                /\ UNCHANGED <<clicked, clicks, result, step>>
    /\ UNCHANGED <<buttons, fills, fillVars, qaVars, applyVars, logVars, runVars>>

\* lines 58-59
StepTryNext ==
    /\ pc = "next"
    /\ \E r \in {_try_next(buttons)} :
           IF r.raised # "none"
           THEN Raise(r.raised) /\ UNCHANGED buttons
           ELSE IF r.clicked # 0
           THEN Click("next", r.clicked) /\ Continue
           ELSE /\ pc' = "review"
                /\ UNCHANGED <<clicked, clicks, result, step, buttons>>
    /\ UNCHANGED <<fills, fillVars, qaVars, applyVars, logVars, runVars>>

\* lines 60-65, and line 67 after the break
StepTryReview ==
    /\ pc = "review"
    /\ \E r \in {_try_review(buttons)} :
           IF r.raised # "none"
           THEN Raise(r.raised) /\ UNCHANGED buttons
           ELSE IF r.clicked # 0
           THEN Click("review", r.clicked) /\ Continue
           ELSE /\ result' = "False"
                /\ pc' = "done"
                /\ UNCHANGED <<clicked, clicks, step, buttons>>
    /\ UNCHANGED <<fills, fillVars, qaVars, applyVars, logVars, runVars>>

\* lines 47 and 67: the iterations are used up, return False
LoopExhausted ==
    /\ pc = "fill"
    /\ ~LoopContinues(step)
    /\ result' = "False"
    /\ pc' = "done"
    /\ UNCHANGED <<step, buttons, clicked, fills, clicks, fillVars, qaVars, applyVars, logVars, runVars>>

NavNext ==
    \/ StepFillPage
    \/ StepTrySubmit
    \/ StepTryNext
    \/ StepTryReview
    \/ LoopExhausted

----------------------------------------------------------------------------
(* linkedin_bot.py: _apply_to_job.                                         *)
(*                                                                         *)
(* What the browser and the file system answer to each step of the call is *)
(* chosen when the step runs: a wait that times out, an element that is    *)
(* absent, hidden or stale, a CSV file that cannot be written.             *)

Timeout == "TimeoutException"
OSError == "OSError"

\* the xpaths tried by _find_easy_apply_button
EasyApplySelectors == 3

\* what one xpath of _find_easy_apply_button meets: no clickable button
\* within the wait, a button that is not displayed, a displayed button, or
\* a button that goes stale before is_displayed()
ProbeOutcomes == {"timeout", "hidden", "button", Stale}

\* _find_easy_apply_button: "button", "None", or the exception it raises
_find_easy_apply_button(probes) ==
    IF \A i \in 1..Len(probes) : probes[i] \in {"timeout", "hidden"}
    THEN "None"
    ELSE probes[CHOOSE i \in 1..Len(probes) :
                    /\ probes[i] \notin {"timeout", "hidden"}
                    /\ \A j \in 1..(i - 1) : probes[j] \in {"timeout", "hidden"}]

\* what a selector of _close_modal meets: no such button, a button whose
\* click succeeds, or a button whose click raises
DismissOutcomes == {"absent", "clicked", Stale, NotInteractable}

\* _close_modal over the Dismiss button, the discard-confirm button and the
\* fallback Discard button: "none", or the exception it raises
_close_modal(dismiss) ==
    IF \A i \in 1..Len(dismiss) : dismiss[i] = "absent" THEN "none"
    ELSE LET first == CHOOSE i \in 1..Len(dismiss) :
                        /\ dismiss[i] # "absent"
                        /\ \A j \in 1..(i - 1) : dismiss[j] = "absent"
         IN  IF dismiss[first] = "clicked" THEN "none" ELSE dismiss[first]

\* the pages _close_modal can meet
DismissPages == [1..3 -> DismissOutcomes]

\* how a run of fill_application ends: its return value or what it raises
FillOutcomes == {"True", "False", Stale, NotInteractable}

\* logger.log_application: the row is appended, or open() raises
LogOutcomes == {"ok", OSError}

ApplyInit ==
    /\ applications_this_session = 0
    /\ csvRows = <<>>
    /\ applyCalls = 0
    /\ applyPc = "idle"
    /\ applyTrace = <<>>
    /\ countAtCall = 0
    /\ applyResult = "none"

ApplyIdle == ApplyInit

\* the statement after this one is the next of the try block
Proceed(next, events) ==
    /\ applyPc' = next
    /\ applyTrace' = applyTrace \o events
    /\ UNCHANGED applyResult

\* `return value`
Return(value, events) ==
    /\ applyPc' = "returned"
    /\ applyTrace' = applyTrace \o events
    /\ applyResult' = value

\* an exception reaches `except (..., Exception) as exc` of line 263
Caught(events) ==
    /\ applyPc' = "handler"
    /\ applyTrace' = applyTrace \o events
    /\ UNCHANGED applyResult

\* _search_and_apply calls _apply_to_job(card, title, company)
ApplyToJob ==
    /\ applyPc \in {"idle", "returned"}
    /\ applyCalls < MaxCalls
    /\ applyCalls' = applyCalls + 1
    /\ countAtCall' = applications_this_session
    /\ applyPc' = "card"
    /\ applyTrace' = <<>>
    /\ applyResult' = "none"
    /\ UNCHANGED <<applications_this_session, csvRows>>
    /\ UNCHANGED <<qaVars, fillVars, navVars, logVars, runVars>>

\* lines 191-195: click the link of the card, or the card if it has none
ClickCard ==
    /\ applyPc = "card"
    /\ \E link \in {"clicked", "absent", Stale}, card \in {"clicked", Stale} :
        IF link = "clicked" \/ (link = "absent" /\ card = "clicked")
        THEN Proceed("pane", <<"card_clicked">>)
        ELSE Caught(<<>>)
    /\ UNCHANGED <<applications_this_session, csvRows, applyCalls, countAtCall>>
    /\ UNCHANGED <<qaVars, fillVars, navVars, logVars, runVars>>

\* lines 197-206: wait for the job detail pane
WaitDetailPane ==
    /\ applyPc = "pane"
    /\ \E loaded \in BOOLEAN :
        IF loaded THEN Proceed("button", <<"pane_loaded">>)
        ELSE Return("False", <<>>)
    /\ UNCHANGED <<applications_this_session, csvRows, applyCalls, countAtCall>>
    /\ UNCHANGED <<qaVars, fillVars, navVars, logVars, runVars>>

\* lines 208-211
FindEasyApplyButton ==
    /\ applyPc = "button"
    /\ \E probes \in [1..EasyApplySelectors -> ProbeOutcomes] :
        \E btn \in {_find_easy_apply_button(probes)} :
            IF btn = "button" THEN Proceed("click", <<"button_found">>)
            ELSE IF btn = "None" THEN Return("False", <<>>)
            ELSE Caught(<<>>)
    /\ UNCHANGED <<applications_this_session, csvRows, applyCalls, countAtCall>>
    /\ UNCHANGED <<qaVars, fillVars, navVars, logVars, runVars>>

\* lines 214-221: scroll to the button, wait until it is clickable, click it
ClickEasyApply ==
    /\ applyPc = "click"
    /\ \E outcome \in {"clicked", Timeout, Stale} :
        IF outcome = "clicked" THEN Proceed("modal", <<"button_clicked">>)
        ELSE Caught(<<>>)
    /\ UNCHANGED <<applications_this_session, csvRows, applyCalls, countAtCall>>
    /\ UNCHANGED <<qaVars, fillVars, navVars, logVars, runVars>>

\* lines 223-232: wait for the Easy Apply modal
WaitModal ==
    /\ applyPc = "modal"
    /\ \E appeared \in BOOLEAN :
        IF appeared THEN Proceed("fill", <<"modal_appeared">>)
        ELSE Return("False", <<>>)
    /\ UNCHANGED <<applications_this_session, csvRows, applyCalls, countAtCall>>
    /\ UNCHANGED <<qaVars, fillVars, navVars, logVars, runVars>>

\* lines 234-236: filler = FormFiller(...); success = filler.fill_application()
FillApplication ==
    /\ applyPc = "fill"
    /\ \E success \in FillOutcomes :
        IF success = "True"
        THEN Proceed("applied", <<"filler_created", "fill_application">>)
        ELSE IF success = "False"
        THEN Proceed("failed", <<"filler_created", "fill_application">>)
        ELSE Caught(<<"filler_created", "fill_application">>)
    /\ UNCHANGED <<applications_this_session, csvRows, applyCalls, countAtCall>>
    /\ UNCHANGED <<qaVars, fillVars, navVars, logVars, runVars>>

\* lines 238-251: count the application, log it, return True
RecordApplied ==
    /\ applyPc = "applied"
    /\ applications_this_session' = applications_this_session + 1
    /\ \E logged \in LogOutcomes :
        IF logged = "ok"
        THEN /\ csvRows' = Append(csvRows, "Applied")
             /\ Return("True", <<"log_application">>)
        ELSE /\ UNCHANGED csvRows
             /\ Caught(<<>>)
    /\ UNCHANGED <<applyCalls, countAtCall>>
    /\ UNCHANGED <<qaVars, fillVars, navVars, logVars, runVars>>

\* lines 252-261: close the modal, log the failure, return False
RecordFailed ==
    /\ applyPc = "failed"
    /\ \E dismiss \in DismissPages, logged \in LogOutcomes :
        IF _close_modal(dismiss) # "none"
        THEN UNCHANGED csvRows /\ Caught(<<"_close_modal">>)
        ELSE IF logged = "ok"
        THEN /\ csvRows' = Append(csvRows, "Failed")
             /\ Return("False", <<"_close_modal", "log_application">>)
        ELSE UNCHANGED csvRows /\ Caught(<<"_close_modal">>)
    /\ UNCHANGED <<applications_this_session, applyCalls, countAtCall>>
    /\ UNCHANGED <<qaVars, fillVars, navVars, logVars, runVars>>

\* lines 263-266: the handler closes the modal and returns False; what
\* _close_modal raises there leaves _apply_to_job
HandleException ==
    /\ applyPc = "handler"
    /\ \E dismiss \in DismissPages :
        IF _close_modal(dismiss) = "none"
        THEN Return("False", <<"_close_modal">>)
        ELSE /\ applyPc' = "raised"
             /\ applyTrace' = Append(applyTrace, "_close_modal")
             /\ applyResult' = _close_modal(dismiss)
    /\ UNCHANGED <<applications_this_session, csvRows, applyCalls, countAtCall>>
    /\ UNCHANGED <<qaVars, fillVars, navVars, logVars, runVars>>

ApplyNext ==
    \/ ApplyToJob
    \/ ClickCard
    \/ WaitDetailPane
    \/ FindEasyApplyButton
    \/ ClickEasyApply
    \/ WaitModal
    \/ FillApplication
    \/ RecordApplied
    \/ RecordFailed
    \/ HandleException

----------------------------------------------------------------------------
(* logger.py: the CSV log of applications.                                 *)
(*                                                                         *)
(* The file is its text.  csv.DictWriter and csv.DictReader are modelled   *)
(* by what they write and read: quoting, doubled quotes, "\r\n" after a    *)
(* record, and the reader's state machine.  The clock runs within one      *)
(* month, so that dates compare field by field.                            *)

FIELDNAMES ==
    <<<<"J", "o", "b", " ", "T", "i", "t", "l", "e">>, <<"C", "o", "m", "p", "a", "n", "y">>, <<"D", "a", "t", "e", " ", "A", "p", "p", "l", "i", "e", "d">>, <<"M", "e", "t", "h", "o", "d">>, <<"S", "t", "a", "t", "u", "s">>,
      <<"F", "o", "l", "l", "o", "w", "-", "u", "p">>, <<"N", "o", "t", "e", "s">>>>

\* the characters csv.writer quotes a field for (dialect excel, QUOTE_MINIMAL)
CsvSpecial == {",", "\"", "\n", "\r"}

RECURSIVE DoubleQuotes(_)
\* every quote character doubled
DoubleQuotes(s) ==
    IF s = <<>> THEN <<>>
    ELSE (IF Head(s) = "\"" THEN <<"\"", "\"">> ELSE <<Head(s)>>)
             \o DoubleQuotes(Tail(s))

\* one field as csv.writer writes it
WriteField(s) ==
    IF \E k \in 1..Len(s) : s[k] \in CsvSpecial
    THEN <<"\"">> \o DoubleQuotes(s) \o <<"\"">>
    ELSE s

RECURSIVE JoinFields(_)
JoinFields(fields) ==
    IF fields = <<>> THEN <<>>
    ELSE IF Len(fields) = 1 THEN WriteField(fields[1])
    ELSE WriteField(fields[1]) \o <<",">> \o JoinFields(Tail(fields))

\* csv.writer.writerow: the record and the line terminator "\r\n"
WriteRow(fields) == JoinFields(fields) \o <<"\r", "\n">>

\* the reader between records, with the records read so far
ReaderStart(rows) ==
    [state |-> "start_record", field |-> <<>>, row |-> <<>>, rows |-> rows]

\* the field and the record under way end
EndRecord(r) == ReaderStart(Append(r.rows, Append(r.row, r.field)))

\* one character through the state machine of csv.reader (dialect excel)
ReadChar(r, ch) ==
    CASE r.state = "start_record" ->
            IF ch \in {"\n", "\r"} THEN r
            ELSE IF ch = "\"" THEN [r EXCEPT !.state = "in_quoted_field"]
            ELSE IF ch = ","
            THEN [r EXCEPT !.state = "start_field", !.row = Append(@, <<>>)]
            ELSE [r EXCEPT !.state = "in_field", !.field = <<ch>>]
      [] r.state = "start_field" ->
            IF ch \in {"\n", "\r"} THEN EndRecord(r)
            ELSE IF ch = "\"" THEN [r EXCEPT !.state = "in_quoted_field"]
            ELSE IF ch = "," THEN [r EXCEPT !.row = Append(@, <<>>)]
            ELSE [r EXCEPT !.state = "in_field", !.field = <<ch>>]
      [] r.state = "in_field" ->
            IF ch \in {"\n", "\r"} THEN EndRecord(r)
            ELSE IF ch = ","
            THEN [r EXCEPT !.state = "start_field",
                           !.row = Append(@, r.field), !.field = <<>>]
            ELSE [r EXCEPT !.field = Append(@, ch)]
      [] r.state = "in_quoted_field" ->
            IF ch = "\"" THEN [r EXCEPT !.state = "quote_in_quoted_field"]
            ELSE [r EXCEPT !.field = Append(@, ch)]
      [] r.state = "quote_in_quoted_field" ->
            IF ch = "\"" THEN [r EXCEPT !.state = "in_quoted_field",
                                        !.field = Append(@, ch)]
            ELSE IF ch = ","
            THEN [r EXCEPT !.state = "start_field",
                           !.row = Append(@, r.field), !.field = <<>>]
            ELSE IF ch \in {"\n", "\r"} THEN EndRecord(r)
            ELSE [r EXCEPT !.state = "in_field", !.field = Append(@, ch)]

\* the reader after the characters text[lo..hi], one after the other
RECURSIVE ReadChars(_, _, _, _)
ReadChars(r, text, lo, hi) ==
    IF lo > hi THEN r
    ELSE IF lo = hi THEN ReadChar(r, text[lo])
    ELSE CHOOSE out \in
            {ReadChars(mid, text, ((lo + hi) \div 2) + 1, hi) :
                mid \in {ReadChars(r, text, lo, (lo + hi) \div 2)}} : TRUE

\* list(csv.reader(f)) without the empty records: the records of the text
ReadRows(text) ==
    LET r == ReadChars(ReaderStart(<<>>), text, 1, Len(text))
    IN  IF r.state = "start_record" THEN r.rows ELSE EndRecord(r).rows

FirstOf(indices) == CHOOSE i \in indices : \A j \in indices : i <= j

UpperChar(c) ==
    IF \E i \in 1..26 : LowerOf[i] = c
    THEN Upper[CHOOSE i \in 1..26 : LowerOf[i] = c]
    ELSE c

\* str.upper()
ToUpper(s) == [i \in 1..Len(s) |-> UpperChar(s[i])]

\* the file at csv_path: whether it exists, and its text
NoFile == [exists |-> FALSE, text |-> <<>>]
FileWith(text) == [exists |-> TRUE, text |-> text]

CsvPath == "Applications.csv"

\* ensure_csv writing the header whether or not the file exists
ensure_csv_AlwaysWrites(file, cache) ==
    [file |-> FileWith(WriteRow(FIELDNAMES)), cache |-> cache \cup {CsvPath}]

\* ensure_csv(csv_path): the file and the cache _initialised_csvs after it
ensure_csv(file, cache) ==
    IF CsvPath \in cache THEN [file |-> file, cache |-> cache]
    ELSE [file |-> IF file.exists THEN file
                   ELSE FileWith(WriteRow(FIELDNAMES)),
          cache |-> cache \cup {CsvPath}]

\* the clock: datetime.now() is <<year, month, day, hour, minute, second>>
ClockStart == <<2026, 11, 10, 12, 0, 0>>

DaysAgo(t, n) == [t EXCEPT ![3] = @ - n]

\* t1 < t2 for two datetimes
Before(t1, t2) ==
    \E k \in 1..6 : t1[k] < t2[k] /\ \A j \in 1..(k - 1) : t1[j] = t2[j]

Pad2(n) == IF n < 10 THEN <<"0">> \o IntToStr(n) ELSE IntToStr(n)

\* t.strftime("%Y-%m-%d %H:%M")
strftime(t) ==
    IntToStr(t[1]) \o <<"-">> \o Pad2(t[2]) \o <<"-">> \o Pad2(t[3]) \o <<" ">>
        \o Pad2(t[4]) \o <<":">> \o Pad2(t[5])

RECURSIVE SplitOn(_, _)
\* s.split(ch)
SplitOn(s, ch) ==
    IF \A k \in 1..Len(s) : s[k] # ch THEN <<s>>
    ELSE LET k == CHOOSE i \in 1..Len(s) :
                    s[i] = ch /\ \A j \in 1..(i - 1) : s[j] # ch
         IN  <<SubSeq(s, 1, k - 1)>> \o SplitOn(SubSeq(s, k + 1, Len(s)), ch)

IsNumber(s, maxlen) ==
    /\ Len(s) \in 1..maxlen
    /\ \A k \in 1..Len(s) : \E d \in 1..10 : Digits[d] = s[k]

RECURSIVE ToInt(_)
ToInt(s) ==
    IF s = <<>> THEN 0
    ELSE 10 * ToInt(SubSeq(s, 1, Len(s) - 1))
            + (CHOOSE d \in 0..9 : Digits[d + 1] = s[Len(s)])

\* datetime.strptime(s, "%Y-%m-%d %H:%M"): the datetime, or no datetime
\* where it raises ValueError
strptime(s) ==
    LET halves == SplitOn(s, " ")
        date == SplitOn(halves[1], "-")
        time == SplitOn(halves[2], ":")
    IN  IF /\ Len(halves) = 2 /\ Len(date) = 3 /\ Len(time) = 2
           /\ Len(date[1]) = 4 /\ IsNumber(date[1], 4)
           /\ IsNumber(date[2], 2) /\ ToInt(date[2]) \in 1..12
           /\ IsNumber(date[3], 2) /\ ToInt(date[3]) \in 1..31
           /\ IsNumber(time[1], 2) /\ ToInt(time[1]) \in 0..23
           /\ IsNumber(time[2], 2) /\ ToInt(time[2]) \in 0..59
        THEN Some(<<ToInt(date[1]), ToInt(date[2]), ToInt(date[3]),
                    ToInt(time[1]), ToInt(time[2]), 0>>)
        ELSE Absent

\* the row of log_application, lines 71-79
LogRow(job_title, company, status, notes, t) ==
    <<job_title, company, strftime(t), <<"L", "i", "n", "k", "e", "d", "I", "n", " ", "E", "a", "s", "y", " ", "A", "p", "p", "l", "y">>, status,
      <<>>, notes>>

\* log_application: ensure_csv, then open(csv_path, "a") and writerow
log_application(file, cache, row) ==
    LET e == ensure_csv(file, cache)
    IN  [file |-> FileWith(e.file.text \o WriteRow(row)), cache |-> e.cache]

\* csv.DictReader: does the row have the key, and its value (None for a
\* record that is shorter than the header)
HasKey(fieldnames, key) == \E k \in 1..Len(fieldnames) : fieldnames[k] = key

Value(fieldnames, record, key) ==
    LET k == CHOOSE i \in 1..Len(fieldnames) :
                /\ fieldnames[i] = key
                /\ \A j \in (i + 1)..Len(fieldnames) : fieldnames[j] # key
    IN  IF k <= Len(record) THEN Some(record[k]) ELSE Absent

ResponseKeywords == {<<"r", "e", "s", "p", "o", "n", "s", "e">>, <<"i", "n", "t", "e", "r", "v", "i", "e", "w">>, <<"o", "f", "f", "e", "r">>, <<"s", "c", "r", "e", "e", "n">>}

\* lines 109-125, one row of the reader: "skip" (continue), "count", or
\* the exception that leaves weekly_summary
RowOutcome(fieldnames, record, cutoff) ==
    IF ~HasKey(fieldnames, <<"D", "a", "t", "e", " ", "A", "p", "p", "l", "i", "e", "d">>) THEN "skip"
    ELSE IF Value(fieldnames, record, <<"D", "a", "t", "e", " ", "A", "p", "p", "l", "i", "e", "d">>) = Absent
    THEN "TypeError"
    ELSE IF strptime(Value(fieldnames, record, <<"D", "a", "t", "e", " ", "A", "p", "p", "l", "i", "e", "d">>)[1]) = Absent
    THEN "skip"
    ELSE IF Before(strptime(Value(fieldnames, record, <<"D", "a", "t", "e", " ", "A", "p", "p", "l", "i", "e", "d">>)[1])[1],
                   cutoff)
    THEN "skip"
    ELSE IF \E key \in {<<"S", "t", "a", "t", "u", "s">>, <<"F", "o", "l", "l", "o", "w", "-", "u", "p">>} :
                /\ HasKey(fieldnames, key)
                /\ Value(fieldnames, record, key) = Absent
    THEN "AttributeError"
    ELSE "count"

\* row.get(key, "")
RowGet(fieldnames, record, key) ==
    IF HasKey(fieldnames, key) THEN Value(fieldnames, record, key)[1]
    ELSE <<>>

NoSummary ==
    [done |-> FALSE, at |-> ClockStart, raised |-> "none", total_applied |-> 0,
     total_responses |-> 0, follow_ups_due |-> 0, by_status |-> <<>>]

\* weekly_summary after its ensure_csv, on the text of the file: the counts
\* of the dict it returns (period and response_rate are strings made of
\* them and of the clock), or what it raises
weekly_summary(text, t) ==
    LET records == ReadRows(text)
        fieldnames == IF records = <<>> THEN <<>> ELSE records[1]
        cutoff == DaysAgo(t, 7)
        outcome == [k \in 2..Len(records) |->
                        RowOutcome(fieldnames, records[k], cutoff)]
        raising == {k \in 2..Len(records) : outcome[k] \notin {"skip", "count"}}
        counted == {k \in 2..Len(records) : outcome[k] = "count"}
        StatusOf(k) == Lower(RowGet(fieldnames, records[k], <<"S", "t", "a", "t", "u", "s">>))
    IN  IF raising # {}
        THEN [NoSummary EXCEPT !.done = TRUE, !.at = t,
                               !.raised = outcome[FirstOf(raising)]]
        ELSE [done |-> TRUE, at |-> t, raised |-> "none",
              total_applied |-> Cardinality(counted),
              total_responses |->
                  Cardinality({k \in counted :
                      \E kw \in ResponseKeywords : Contains(kw, StatusOf(k))}),
              follow_ups_due |->
                  Cardinality({k \in counted :
                      ToUpper(Strip(RowGet(fieldnames, records[k], <<"F", "o", "l", "l", "o", "w", "-", "u", "p">>)))
                          = <<"Y", "E", "S">>}),
              by_status |-> [s \in {StatusOf(k) : k \in counted} |->
                                Cardinality({k \in counted : StatusOf(k) = s})]]

\* what the calls of a session log: a plain title, and one with a comma, a
\* quote and a line break
JobTitles == {<<"S", "O", "C">>, <<"I", "R", ",", "\"", "\n", "x">>}

\* rows appended to the file by hand: applied long ago, applied exactly
\* seven days before the start of the clock, an interview with a follow-up
\* due, a date that is no date, a row cut short after the company, and one
\* cut short after the date
EditedLines ==
    {<<"O", "l", "d", ",", "C", "o", "r", "p", ",", "2", "0", "2", "6", "-", "1", "1", "-", "0", "1", " ", "0", "9", ":", "0", "0", ",", "M", ",", "A", "p", "p", "l", "i", "e", "d", ",", ",">> \o <<"\r", "\n">>,
     <<"W", "e", "e", "k", ",", "C", "o", "r", "p", ",", "2", "0", "2", "6", "-", "1", "1", "-", "0", "3", " ", "1", "2", ":", "0", "0", ",", "M", ",", "A", "p", "p", "l", "i", "e", "d", ",", ",">> \o <<"\r", "\n">>,
     <<"I", "R", ",", "B", "e", "t", "a", ",", "2", "0", "2", "6", "-", "1", "1", "-", "0", "9", " ", "9", ":", "0", "5", ",", "M", ",", "I", "n", "t", "e", "r", "v", "i", "e", "w", ",", " ", "y", "e", "s", " ", ",">> \o <<"\r", "\n">>,
     <<"J", ",", "C", ",", "n", "o", "t", " ", "a", " ", "d", "a", "t", "e", ",", "M", ",", "A", "p", "p", "l", "i", "e", "d", ",", ",">> \o <<"\r", "\n">>,
     <<"S", "h", "o", "r", "t", ",", "C", "o", "r", "p">> \o <<"\r", "\n">>,
     <<"C", "u", "t", ",", "C", "o", "r", "p", ",", "2", "0", "2", "6", "-", "1", "1", "-", "0", "9", " ", "1", "0", ":", "0", "0">> \o <<"\r", "\n">>}

FileNotFound == "FileNotFoundError"

LogInit ==
    /\ csvFile \in {NoFile, FileWith(WriteRow(FIELDNAMES))}
    /\ _initialised_csvs = {}
    /\ loggedRows = <<>>
    /\ outside = FALSE
    /\ now = ClockStart
    /\ summary = NoSummary
    /\ logOps = <<>>

LogIdle ==
    /\ csvFile = NoFile
    /\ _initialised_csvs = {}
    /\ loggedRows = <<>>
    /\ outside = FALSE
    /\ now = ClockStart
    /\ summary = NoSummary
    /\ logOps = <<>>

\* one more operation on the log
Op(name) ==
    /\ Len(logOps) < MaxLogOps
    /\ logOps' = Append(logOps, name)

\* a call of ensure_csv(csv_path)
EnsureCsv ==
    /\ Op("ensure_csv")
    /\ \E e \in {ensure_csv(csvFile, _initialised_csvs)} :
        /\ csvFile' = e.file
        /\ _initialised_csvs' = e.cache
    /\ summary' = NoSummary
    /\ UNCHANGED <<loggedRows, outside, now>>
    /\ UNCHANGED <<qaVars, fillVars, navVars, applyVars, runVars>>

\* a call of log_application(csv_path, job_title, company, status=, notes=)
LogApplication ==
    /\ Op("log_application")
    /\ \E job_title \in JobTitles, applied \in BOOLEAN, io \in LogOutcomes :
        LET row == LogRow(job_title, <<"A", "c", "m", "e">>,
                          IF applied THEN <<"A", "p", "p", "l", "i", "e", "d">> ELSE <<"F", "a", "i", "l", "e", "d">>,
                          IF applied THEN <<>> ELSE <<"C", "o", "u", "l", "d", " ", "n", "o", "t", " ", "c", "o", "m", "p", "l", "e", "t", "e", " ", "f", "o", "r", "m">>,
                          now)
        IN  IF io = "ok"
            THEN \E r \in {log_application(csvFile, _initialised_csvs, row)} :
                    /\ csvFile' = r.file
                    /\ _initialised_csvs' = r.cache
                    /\ loggedRows' = Append(loggedRows, row)
            ELSE \E e \in {ensure_csv(csvFile, _initialised_csvs)} :
                    /\ csvFile' = e.file
                    /\ _initialised_csvs' = e.cache
                    /\ UNCHANGED loggedRows
    /\ summary' = NoSummary
    /\ UNCHANGED <<outside, now>>
    /\ UNCHANGED <<qaVars, fillVars, navVars, applyVars, runVars>>

\* a call of weekly_summary(csv_path), at some second of the minute
WeeklySummary ==
    /\ Op("weekly_summary")
    /\ \E second \in {0, 30} :
        \E e \in {ensure_csv(csvFile, _initialised_csvs)} :
            /\ csvFile' = e.file
            /\ _initialised_csvs' = e.cache
            /\ summary' =
                  IF e.file.exists
                  THEN weekly_summary(e.file.text, [now EXCEPT ![6] = second])
                  ELSE [NoSummary EXCEPT !.done = TRUE, !.raised = FileNotFound]
    /\ UNCHANGED <<loggedRows, outside, now>>
    /\ UNCHANGED <<qaVars, fillVars, navVars, applyVars, runVars>>

\* the file is removed between two calls
RemoveFile ==
    /\ Op("remove")
    /\ csvFile.exists
    /\ csvFile' = NoFile
    /\ outside' = TRUE
    /\ summary' = NoSummary
    /\ UNCHANGED <<_initialised_csvs, loggedRows, now>>
    /\ UNCHANGED <<qaVars, fillVars, navVars, applyVars, runVars>>

\* the user adds a row to the file between two calls
EditFile ==
    /\ Op("edit")
    /\ csvFile.exists
    /\ \E line \in EditedLines : csvFile' = FileWith(csvFile.text \o line)
    /\ outside' = TRUE
    /\ summary' = NoSummary
    /\ UNCHANGED <<_initialised_csvs, loggedRows, now>>
    /\ UNCHANGED <<qaVars, fillVars, navVars, applyVars, runVars>>

\* a day passes
Tick ==
    /\ now[3] < ClockStart[3] + MaxTicks
    /\ now' = [now EXCEPT ![3] = @ + 1]
    /\ UNCHANGED <<csvFile, _initialised_csvs, loggedRows, outside, summary, logOps>>
    /\ UNCHANGED <<qaVars, fillVars, navVars, applyVars, runVars>>

LogNext ==
    \/ EnsureCsv
    \/ LogApplication
    \/ WeeklySummary
    \/ RemoveFile
    \/ EditFile
    \/ Tick

----------------------------------------------------------------------------
(* main.py and LinkedInBot.run: a session.                                 *)

\* the job_titles and the locations of the search section
TitleLists == {<<>>, <<"SOC Analyst">>, <<"SOC Analyst", "IR Analyst">>}
LocationLists == {<<"Bangalore">>, <<"Bangalore", "Remote">>}

Configs ==
    [dry_run : BOOLEAN, job_titles : TitleLists, locations : LocationLists,
     max_applications : 0..MaxApplications]

\* --dry-run leaving the configured cap alone
DryRunOverride_KeepsCap(cfg) == cfg.max_applications

\* main.py lines 80-81 and linkedin_bot.py line 64: the cap of the bot
DryRunOverride(cfg) == IF cfg.dry_run THEN 0 ELSE cfg.max_applications

\* the title and the location of every iteration of run(), in order
SearchPairs(cfg) ==
    [k \in 1..(Len(cfg.job_titles) * Len(cfg.locations)) |->
        <<cfg.job_titles[((k - 1) \div Len(cfg.locations)) + 1],
          cfg.locations[((k - 1) % Len(cfg.locations)) + 1]>>]

\* _apply_to_job as run() sees it: what it returns or that it raises,
\* whether it counted the application, whether it ran a FormFiller
ApplyOutcomes ==
    {[result |-> "True", counted |-> TRUE, filled |-> TRUE],
     [result |-> "False", counted |-> FALSE, filled |-> FALSE],
     [result |-> "False", counted |-> FALSE, filled |-> TRUE],
     [result |-> "False", counted |-> TRUE, filled |-> TRUE],
     [result |-> "raised", counted |-> FALSE, filled |-> FALSE],
     [result |-> "raised", counted |-> FALSE, filled |-> TRUE],
     [result |-> "raised", counted |-> TRUE, filled |-> TRUE]}

\* a job card: _extract_card_info finds a title, finds none, or the card
\* has gone stale
CardKinds == {"titled", "untitled", Stale}

\* the bot main has built, before bot.start()
RunInit ==
    /\ runCfg \in Configs
    /\ max_applications = DryRunOverride(runCfg)
    /\ runPc = "start"
    /\ loggedIn = FALSE
    /\ searches = <<>>
    /\ searchAt = 1
    /\ resultsPage = 0
    /\ cards = 0
    /\ attempts = 0
    /\ fillers = 0
    /\ exitCode = "none"

RunIdle ==
    /\ runCfg = [dry_run |-> FALSE, job_titles |-> <<>>,
                 locations |-> <<"Bangalore">>, max_applications |-> 0]
    /\ max_applications = 0
    /\ runPc = "start"
    /\ loggedIn = FALSE
    /\ searches = <<>>
    /\ searchAt = 1
    /\ resultsPage = 0
    /\ cards = 0
    /\ attempts = 0
    /\ fillers = 0
    /\ exitCode = "none"

applyCallVars ==
    <<csvRows, applyCalls, applyPc, applyTrace, countAtCall, applyResult>>

\* main ends: return 0, or return 1 after an exception (lines 89-102)
Exit(code) ==
    /\ runPc' = "done"
    /\ exitCode' = code

\* bot.start(): the browser is launched and _login runs (lines 68-113)
Start ==
    /\ runPc = "start"
    /\ \E login \in {"ok", Timeout} :
        IF login = "ok"
        THEN /\ loggedIn' = TRUE
             /\ runPc' = "run"
             /\ UNCHANGED exitCode
        ELSE Exit(1) /\ UNCHANGED loggedIn
    /\ UNCHANGED <<runCfg, max_applications, searches, searchAt, resultsPage,
                   cards, attempts, fillers>>
    /\ UNCHANGED <<applications_this_session, applyCallVars>>
    /\ UNCHANGED <<qaVars, fillVars, navVars, logVars>>

\* one iteration of the loops of run() (lines 122-128) up to the load of
\* the search page (lines 132-136)
Run ==
    /\ runPc = "run"
    /\ IF searchAt > Len(SearchPairs(runCfg))
       THEN Exit(0) /\ UNCHANGED <<searches, resultsPage>>
       ELSE IF applications_this_session >= max_applications
       THEN Exit(0) /\ UNCHANGED <<searches, resultsPage>>
       ELSE /\ searches' = Append(searches, SearchPairs(runCfg)[searchAt])
            /\ resultsPage' = 1
            /\ runPc' = "page"
            /\ UNCHANGED exitCode
    /\ UNCHANGED <<runCfg, max_applications, loggedIn, searchAt, cards,
                   attempts, fillers>>
    /\ UNCHANGED <<applications_this_session, applyCallVars>>
    /\ UNCHANGED <<qaVars, fillVars, navVars, logVars>>

\* the head of the while loop of _search_and_apply (lines 137-141)
SearchPage ==
    /\ runPc = "page"
    /\ IF applications_this_session < max_applications
       THEN /\ \E found \in 0..MaxCards : cards' = found
            /\ runPc' = "card"
            /\ UNCHANGED searchAt
       ELSE /\ runPc' = "run"
            /\ searchAt' = searchAt + 1
            /\ UNCHANGED cards
    /\ UNCHANGED <<runCfg, max_applications, loggedIn, searches, resultsPage,
                   attempts, fillers, exitCode>>
    /\ UNCHANGED <<applications_this_session, applyCallVars>>
    /\ UNCHANGED <<qaVars, fillVars, navVars, logVars>>

\* the loop over the job cards without the test of lines 142-143
JobCard_NoCapTest ==
    /\ runPc = "card"
    /\ IF cards = 0
       THEN /\ runPc' = "next_page"
            /\ cards' = 0
            /\ UNCHANGED <<attempts, fillers, exitCode,
                           applications_this_session>>
       ELSE \E card \in CardKinds, applied \in ApplyOutcomes :
            /\ cards' = cards - 1
            /\ IF card = Stale
               THEN /\ Exit(1)
                    /\ UNCHANGED <<attempts, fillers,
                                   applications_this_session>>
               ELSE IF card = "untitled"
               THEN UNCHANGED <<runPc, attempts, fillers, exitCode,
                                applications_this_session>>
               ELSE /\ attempts' = attempts + 1
                    /\ fillers' = fillers + (IF applied.filled THEN 1 ELSE 0)
                    /\ applications_this_session' =
                          applications_this_session
                              + (IF applied.counted THEN 1 ELSE 0)
                    /\ IF applied.result = "raised"
                       THEN Exit(1)
                       ELSE UNCHANGED <<runPc, exitCode>>
    /\ UNCHANGED <<runCfg, max_applications, loggedIn, searches, searchAt,
                   resultsPage>>
    /\ UNCHANGED applyCallVars
    /\ UNCHANGED <<qaVars, fillVars, navVars, logVars>>

\* one iteration of the loop over the job cards (lines 141-150)
JobCard ==
    /\ runPc = "card"
    /\ IF cards = 0 \/ applications_this_session >= max_applications
       THEN /\ runPc' = "next_page"
            /\ cards' = 0
            /\ UNCHANGED <<attempts, fillers, exitCode,
                           applications_this_session>>
       ELSE \E card \in CardKinds, applied \in ApplyOutcomes :
            /\ cards' = cards - 1
            /\ IF card = Stale
               THEN /\ Exit(1)
                    /\ UNCHANGED <<attempts, fillers,
                                   applications_this_session>>
               ELSE IF card = "untitled"
               THEN UNCHANGED <<runPc, attempts, fillers, exitCode,
                                applications_this_session>>
               ELSE /\ attempts' = attempts + 1
                    /\ fillers' = fillers + (IF applied.filled THEN 1 ELSE 0)
                    /\ applications_this_session' =
                          applications_this_session
                              + (IF applied.counted THEN 1 ELSE 0)
                    /\ IF applied.result = "raised"
                       THEN Exit(1)
                       ELSE UNCHANGED <<runPc, exitCode>>
    /\ UNCHANGED <<runCfg, max_applications, loggedIn, searches, searchAt,
                   resultsPage>>
    /\ UNCHANGED applyCallVars
    /\ UNCHANGED <<qaVars, fillVars, navVars, logVars>>

\* the end of the while body with a Next button that leaves the results
\* where they are
GoToNextPage_StaysOnPage ==
    /\ runPc = "next_page"
    /\ \E next_btn \in {"absent", "disabled", "enabled"} :
        /\ next_btn = "enabled" => resultsPage < MaxPages
        /\ IF next_btn = "enabled"
           THEN /\ resultsPage' = resultsPage
                /\ runPc' = "page"
                /\ UNCHANGED searchAt
           ELSE /\ runPc' = "run"
                /\ searchAt' = searchAt + 1
                /\ UNCHANGED resultsPage
    /\ UNCHANGED <<runCfg, max_applications, loggedIn, searches, cards,
                   attempts, fillers, exitCode>>
    /\ UNCHANGED <<applications_this_session, applyCallVars>>
    /\ UNCHANGED <<qaVars, fillVars, navVars, logVars>>

\* _go_to_next_page and the end of the while body (lines 152-157, 305-317)
GoToNextPage ==
    /\ runPc = "next_page"
    /\ \E next_btn \in {"absent", "disabled", "enabled"} :
        /\ next_btn = "enabled" => resultsPage < MaxPages
        /\ IF next_btn = "enabled"
           THEN /\ resultsPage' = resultsPage + 1
                /\ runPc' = "page"
                /\ UNCHANGED searchAt
           ELSE /\ runPc' = "run"
                /\ searchAt' = searchAt + 1
                /\ UNCHANGED resultsPage
    /\ UNCHANGED <<runCfg, max_applications, loggedIn, searches, cards,
                   attempts, fillers, exitCode>>
    /\ UNCHANGED <<applications_this_session, applyCallVars>>
    /\ UNCHANGED <<qaVars, fillVars, navVars, logVars>>

RunNext ==
    \/ Start
    \/ Run
    \/ SearchPage
    \/ JobCard
    \/ GoToNextPage

----------------------------------------------------------------------------
(* The specifications.                                                     *)

QASpecInit == QAInit /\ FillIdle /\ NavIdle /\ ApplyIdle /\ LogIdle /\ RunIdle

QASpec == QASpecInit /\ [][QANext]_vars

FillSpecInit == FillInit /\ QAIdle /\ NavIdle /\ ApplyIdle /\ LogIdle /\ RunIdle

FillSpec == FillSpecInit /\ [][FillNext]_vars

Init == NavInit /\ QAIdle /\ ApplyIdle /\ LogIdle /\ RunIdle

Next == NavNext

Spec == Init /\ [][Next]_vars

ApplySpecInit == ApplyInit /\ QAIdle /\ FillIdle /\ NavIdle /\ LogIdle /\ RunIdle
ApplySpec == ApplySpecInit /\ [][ApplyNext]_vars

LogSpecInit == LogInit /\ QAIdle /\ FillIdle /\ NavIdle /\ ApplyIdle /\ RunIdle
LogSpec == LogSpecInit /\ [][LogNext]_vars

RunSpecInit ==
    RunInit /\ QAIdle /\ FillIdle /\ NavIdle /\ ApplyIdle /\ LogIdle
RunSpec == RunSpecInit /\ [][RunNext]_vars

\* a session whose steps all come to pass: every wait of the bot has a
\* timeout and every sleep ends
RunLiveSpec == RunSpecInit /\ [][RunNext]_vars /\ WF_vars(RunNext)

----------------------------------------------------------------------------
(* Claims about the answer engine (QASpec).                                *)

DropdownReturned == qaCall.fn = "best_dropdown_option" /\ qaOut.done

TextAnswerReturned ==
    qaCall.fn = "answer" /\ qaCall.field_type = "text" /\ qaOut.done

\* C8: for every label, every profile and every non-empty option list,
\* best_dropdown_option returns an element of the option list.
C8_ReturnsAnOption ==
    (DropdownReturned /\ qaCall.options # <<>>)
        => \E i \in 1..Len(qaCall.options) : qaCall.options[i] = qaOut.value

\* a call that returned the second of two different options
C8_Witness ==
    /\ DropdownReturned
    /\ Len(qaCall.options) = 2
    /\ qaCall.options[1] # qaCall.options[2]
    /\ qaOut.value = qaCall.options[2]

DropdownKeywords ==
    {<<"e", "d", "u", "c", "a", "t", "i", "o", "n">>, <<"d", "e", "g", "r", "e", "e">>, <<"e", "x", "p", "e", "r", "i", "e", "n", "c", "e">>, <<"c", "o", "u", "n", "t", "r", "y">>, <<"c", "u", "r", "r", "e", "n", "c", "y">>}

\* the label is no boolean question and mentions no dropdown keyword
UnrecognisedLabel(question_text) ==
    /\ \A s \in YesNoStarters : ~StartsWith(Lower(question_text), s)
    /\ \A k \in DropdownKeywords : ~Contains(k, Lower(question_text))

\* C9: for a label that is not a boolean question and mentions none of
\* education, degree, experience, country, currency, best_dropdown_option
\* returns the first listed option, for every non-empty option list.
C9_UnrecognisedLabelGivesFirstOption ==
    (DropdownReturned /\ qaCall.options # <<>>
        /\ UnrecognisedLabel(qaCall.question_text))
        => qaOut.value = qaCall.options[1]

\* an unrecognised label, the tests' profile, and a second option (INR) that
\* a keyword rule would have picked
C9_Witness ==
    /\ DropdownReturned
    /\ qaCall.config = "sample"
    /\ qaCall.question_text = <<"U", "n", "k", "n", "o", "w", "n", " ", "y", "o", "u">>
    /\ qaCall.options = <<<<"Y", "e", "s">>, <<"I", "N", "R">>>>
    /\ qaOut.value = <<"Y", "e", "s">>

\* C10: a narrative rule matches a label only if every whitespace-delimited
\* word of its key appears as a whole word in the lower-cased label: the
\* text of a rule is returned only for such a label.
C10_NarrativeRuleNeedsEveryWord ==
    TextAnswerReturned =>
        LET star_map == QuestionAnswerer(ConfigOf(qaCall.config)).star_map
            q == Strip(Lower(qaCall.question_text))
        IN  \A i \in 1..Len(star_map) :
                qaOut.value = Strip(star_map[i][2])
                    => \A k \in 1..Len(Split(star_map[i][1])) :
                          WholeWordSearch(Split(star_map[i][1])[k], q)

\* the profile of the call and the lower-cased, stripped label
CallConfig == ConfigOf(qaCall.config)
CallLabel == Strip(Lower(qaCall.question_text))

\* the whitespace-delimited words of a string
WordsOf(s) == {Split(s)[k] : k \in 1..Len(Split(s))}

\* word occurs inside a longer word of the label and is no word of it
OnlyInsideAWord(word, q) ==
    /\ word \notin WordsOf(q)
    /\ \E w \in WordsOf(q) : Contains(word, w)

\* C11: narrative rules match whole words, not substrings: the text of a
\* one-word rule is not returned for a label that holds the word only inside
\* a longer word (rule 'art', label 'start').
C11_NarrativeMatchIsWholeWord ==
    TextAnswerReturned =>
        \A i \in 1..Len(CallConfig.answers.star_answers) :
            LET key == Lower(CallConfig.answers.star_answers[i][1])
            IN  (Len(Split(key)) = 1 /\ OnlyInsideAWord(Split(key)[1], CallLabel))
                    => qaOut.value # Strip(CallConfig.answers.star_answers[i][2])

\* rule 'art' is configured and the label 'start' gets the generic paragraph
C11_Witness ==
    /\ TextAnswerReturned
    /\ qaCall.config = "rules"
    /\ qaCall.question_text = <<"s", "t", "a", "r", "t">>
    /\ qaOut.value = GenericParagraph

\* a narrative rule matches the label: every word of its key is a whole
\* word of the label
EveryWordInLabel(key, q) ==
    \A k \in 1..Len(Split(key)) : WholeWordSearch(Split(key)[k], q)

\* the keywords of the well-known field categories
CategoryKeywords ==
    {<<"f", "i", "r", "s", "t", " ", "n", "a", "m", "e">>, <<"l", "a", "s", "t", " ", "n", "a", "m", "e">>, <<"s", "u", "r", "n", "a", "m", "e">>, <<"e", "m", "a", "i", "l">>, <<"p", "h", "o", "n", "e">>, <<"m", "o", "b", "i", "l", "e">>,
     <<"c", "i", "t", "y">>, <<"l", "i", "n", "k", "e", "d", "i", "n">>, <<"g", "i", "t", "h", "u", "b">>, <<"p", "o", "r", "t", "f", "o", "l", "i", "o">>, <<"w", "e", "b", "s", "i", "t", "e">>, <<"s", "a", "l", "a", "r", "y">>,
     <<"c", "t", "c">>, <<"c", "o", "m", "p", "e", "n", "s", "a", "t", "i", "o", "n">>, <<"n", "o", "t", "i", "c", "e">>, <<"e", "x", "p", "e", "r", "i", "e", "n", "c", "e">>, <<"c", "o", "v", "e", "r", " ", "l", "e", "t", "t", "e", "r">>,
     <<"m", "o", "t", "i", "v", "a", "t", "i", "o", "n">>}

\* C12: answer(label, free-text) returns a string for every label and
\* profile, and the generic paragraph when no narrative rule and no
\* well-known field category matches the label.
C12_FallsBackToGenericParagraph ==
    (/\ TextAnswerReturned
     /\ \A i \in 1..Len(CallConfig.answers.star_answers) :
            ~EveryWordInLabel(Lower(CallConfig.answers.star_answers[i][1]),
                              CallLabel)
     /\ \A kw \in CategoryKeywords : ~Contains(kw, CallLabel))
        => qaOut.value = GenericParagraph

AnswerReturned(field_type) ==
    qaCall.fn = "answer" /\ qaCall.field_type = field_type /\ qaOut.done

\* no key of the configured rule table occurs in the label
NoRuleFor(rules, q) ==
    \A i \in 1..Len(rules) : ~Contains(Lower(rules[i][1]), q)

MentionsSponsorship(q) == Contains(<<"s", "p", "o", "n", "s", "o", "r", "s", "h", "i", "p">>, q) \/ Contains(<<"v", "i", "s", "a">>, q)
MentionsAuthorization(q) == Contains(<<"a", "u", "t", "h", "o", "r", "i", "z", "e", "d">>, q) \/ Contains(<<"e", "l", "i", "g", "i", "b", "l", "e">>, q)

C14_BooleanIsYesOrNo ==
    AnswerReturned("boolean")
        => /\ qaOut.value \in {<<"Y", "e", "s">>, <<"N", "o">>}
           /\ (/\ NoRuleFor(CallConfig.answers.yes_no, CallLabel)
               /\ ~MentionsSponsorship(CallLabel)
               /\ ~MentionsAuthorization(CallLabel))
                => qaOut.value = <<"Y", "e", "s">>

\* a label without rule and domain keyword, under a profile whose two
\* eligibility facts would both give 'No'
C14_Witness ==
    /\ AnswerReturned("boolean")
    /\ qaCall.question_text = <<"U", "n", "k", "n", "o", "w", "n", " ", "s", "a", "l", "a", "r", "y">>
    /\ qaCall.config = "rules"
    /\ CallConfig.eligibility.legally_authorized = Some(FALSE)
    /\ qaOut.value = <<"Y", "e", "s">>

\* the number the numeric fallback chain names for the label, a set that is
\* empty when the profile does not configure the fact
NumericDefault(background, q) ==
    LET fact == IF Contains(<<"e", "x", "p", "e", "r", "i", "e", "n", "c", "e">>, q)
                THEN background.years_of_experience
                ELSE IF Contains(<<"n", "o", "t", "i", "c", "e">>, q)
                THEN background.notice_period_days
                ELSE IF Contains(<<"s", "a", "l", "a", "r", "y">>, q) \/ Contains(<<"c", "t", "c">>, q)
                        \/ Contains(<<"c", "o", "m", "p", "e", "n", "s", "a", "t", "i", "o", "n">>, q)
                THEN background.expected_salary
                ELSE Some(0)
    IN  {fact[k] : k \in 1..Len(fact)}

\* C15: for a numeric question that no numeric rule matches, answer returns
\* the decimal string of years_of_experience if the label holds
\* 'experience', else of notice_period_days if it holds 'notice', else of
\* expected_salary if it holds 'salary', 'ctc' or 'compensation', else '0'.
C15_NumericFallbackChain ==
    (AnswerReturned("numeric") /\ NoRuleFor(CallConfig.answers.numeric, CallLabel))
        => \A n \in NumericDefault(CallConfig.background, CallLabel) :
              qaOut.value = IntToStr(n)

\* 'experience' wins over 'notice': years_of_experience = 3 gives '3'
C15_Witness ==
    /\ AnswerReturned("numeric")
    /\ qaCall.config = "sample"
    /\ qaCall.question_text = <<"n", "o", "t", "i", "c", "e", " ", "e", "x", "p", "e", "r", "i", "e", "n", "c", "e">>
    /\ NoRuleFor(CallConfig.answers.numeric, CallLabel)
    /\ qaOut.value = <<"3">>

\* the first rule, in configured order, whose lower-cased key occurs in the
\* label; 0 if there is none
FirstConfiguredRule(rules, q) ==
    IF NoRuleFor(rules, q) THEN 0
    ELSE CHOOSE i \in 1..Len(rules) :
            /\ Contains(Lower(rules[i][1]), q)
            /\ \A j \in 1..(i - 1) : ~Contains(Lower(rules[j][1]), q)

\* C16: the rule applied to a label is the first rule, in configured order,
\* whose keyword matches the lower-cased label, and the value returned is
\* the value configured for that rule, also in a table whose keys differ
\* only in letter case (stated for the boolean and the numeric table).
C16_FirstConfiguredRuleWins ==
    /\ AnswerReturned("boolean")
        => LET rules == CallConfig.answers.yes_no
               i == FirstConfiguredRule(rules, CallLabel)
           IN  i # 0 => qaOut.value = (IF rules[i][2] THEN <<"Y", "e", "s">> ELSE <<"N", "o">>)
    /\ AnswerReturned("numeric")
        => LET rules == CallConfig.answers.numeric
               i == FirstConfiguredRule(rules, CallLabel)
           IN  i # 0 => qaOut.value = IntToStr(rules[i][2])

\* the positions of the options that contain the configured target, case
\* ignored, when the label mentions the keyword
TargetHits(keyword, target, q, options) ==
    IF Contains(keyword, q) /\ target # Absent
    THEN {i \in 1..Len(options) :
            Contains(Lower(target[1]), Lower(options[i]))}
    ELSE {}

Earliest(hits) == CHOOSE i \in hits : \A j \in hits : i <= j

\* C17: for a label that is no boolean question and mentions none of
\* education, degree, experience: when the label mentions 'country' and an
\* option contains the profile's country, the earliest such option is
\* returned; otherwise, when it mentions 'currency' and an option contains
\* the profile's currency, the earliest such option is returned.
C17_EarliestOptionWithTarget ==
    (/\ DropdownReturned
     /\ ~_is_yes_no_question(Lower(qaCall.question_text))
     /\ \A kw \in {<<"e", "d", "u", "c", "a", "t", "i", "o", "n">>, <<"d", "e", "g", "r", "e", "e">>, <<"e", "x", "p", "e", "r", "i", "e", "n", "c", "e">>} :
            ~Contains(kw, Lower(qaCall.question_text)))
        => LET q == Lower(qaCall.question_text)
               byCountry == TargetHits(<<"c", "o", "u", "n", "t", "r", "y">>, CallConfig.personal.country,
                                       q, qaCall.options)
               byCurrency == TargetHits(<<"c", "u", "r", "r", "e", "n", "c", "y">>, CallConfig.background.currency,
                                        q, qaCall.options)
           IN  /\ byCountry # {}
                    => qaOut.value = qaCall.options[Earliest(byCountry)]
               /\ (/\ ~Contains(<<"c", "o", "u", "n", "t", "r", "y">>, q)
                   /\ byCurrency # {})
                    => qaOut.value = qaCall.options[Earliest(byCurrency)]

\* two different options contain the currency INR: the first one is returned
C17_Witness ==
    /\ DropdownReturned
    /\ qaCall.config = "sample"
    /\ qaCall.question_text = <<"U", "n", "k", "n", "o", "w", "n", " ", "c", "u", "r", "r", "e", "n", "c", "y">>
    /\ qaCall.options = <<<<"I", "N", "R">>, <<"I", "n", "d", "i", "a", " ", "(", "I", "N", "R", ")">>>>
    /\ qaOut.value = <<"I", "N", "R">>

\* the positions of the options that contain the text, case ignored
OptionsWith(text, options) ==
    {i \in 1..Len(options) : Contains(Lower(text), Lower(options[i]))}

\* the first option that contains the text, the first listed option if no
\* option contains it
FirstWithOrFirstListed(text, options) ==
    IF OptionsWith(text, options) # {}
    THEN options[Earliest(OptionsWith(text, options))]
    ELSE options[1]

BooleanStarters ==
    {<<"a", "r", "e", " ">>, <<"i", "s", " ">>, <<"d", "o", " ">>, <<"w", "i", "l", "l", " ">>, <<"h", "a", "v", "e", " ">>, <<"c", "a", "n", " ">>, <<"w", "e", "r", "e", " ">>, <<"d", "i", "d", " ">>}

StartsLikeABooleanQuestion(label) ==
    \E st \in BooleanStarters :
        Len(label) >= Len(st) /\ SubSeq(Lower(label), 1, Len(st)) = st

\* C26: the keyword rules are a strict else-if chain: for a label that is
\* no boolean question and mentions 'education' or 'degree', the result is
\* the first option containing the profile's highest education, and the
\* first listed option if no option contains it, whatever else the label
\* mentions.
C26_EducationRuleEndsTheChain ==
    (/\ DropdownReturned /\ qaCall.options # <<>>
     /\ ~StartsLikeABooleanQuestion(qaCall.question_text)
     /\ \E kw \in {<<"e", "d", "u", "c", "a", "t", "i", "o", "n">>, <<"d", "e", "g", "r", "e", "e">>} :
            Contains(kw, Lower(qaCall.question_text))
     /\ CallConfig.background.highest_education # Absent)
        => qaOut.value =
              FirstWithOrFirstListed(CallConfig.background.highest_education[1],
                                     qaCall.options)

\* C27: for a label that starts with a boolean starter, best_dropdown_option
\* returns the first option containing, case ignored, the 'Yes' or 'No' that
\* answer(label, boolean) gives, the first listed option if no option
\* contains it, and consults no keyword rule.
C27_BooleanDropdownFollowsAnswer ==
    (/\ DropdownReturned /\ qaCall.options # <<>>
     /\ StartsLikeABooleanQuestion(qaCall.question_text))
        => qaOut.value =
              FirstWithOrFirstListed(
                  answer(QuestionAnswerer(CallConfig), qaCall.question_text,
                         "boolean"),
                  qaCall.options)

\* a boolean question that mentions 'experience', with an option that the
\* experience rule would pick listed before 'Yes'
C27_Witness ==
    /\ DropdownReturned
    /\ qaCall.config = "sample"
    /\ qaCall.question_text = <<"A", "r", "e", " ", "e", "x", "p", "e", "r", "i", "e", "n", "c", "e">>
    /\ qaCall.options = <<<<"3", " ", "y", "e", "a", "r", "s">>, <<"Y", "e", "s">>>>
    /\ qaOut.value = <<"Y", "e", "s">>

----------------------------------------------------------------------------
(* Claims about the page-fill pass (FillSpec).                             *)

PassRan == lastPass.ran /\ lastPass.modal_found

\* C6: during one page-fill pass, a stale-reference or not-interactable
\* fault raised by a single field of any kind, also while reading its state
\* or resolving its label, only skips that field: the pass completes without
\* raising and the handling of every field of the page has ended.
C6_FieldFaultOnlySkipsTheField ==
    PassRan => /\ lastPass.raised = "none"
               /\ lastPass.reached = 1..Len(modalForm)

IsTextField(f) == f.kind \in {"text", "textarea"}

WritesTo(ops, i) ==
    \E k \in 1..Len(ops) : ops[k] \in {<<"clear", i>>, <<"send_keys", i>>}

\* C7: the text-fill policy (text inputs and textareas) never clears or
\* writes a field whose current value is non-empty after trimming: every
\* pass, the first or a later one, leaves the value of such a field as it was.
C7_FilledTextIsNeverRewritten ==
    [][\A i \in 1..Len(modalForm) :
          (IsTextField(modalForm[i]) /\ Strip(modalForm[i].value) # <<>>)
              => /\ modalForm'[i].value = modalForm[i].value
                 /\ ~WritesTo(lastPass'.ops, i)]_vars

\* a pass has run over a healthy, visible, enabled text field that holds a
\* value the policy did not write, and for which it has an answer
C7_Witness ==
    /\ PassRan
    /\ \E i \in 1..Len(modalForm) :
        /\ IsTextField(modalForm[i])
        /\ modalForm[i].displayed /\ modalForm[i].enabled
        /\ modalForm[i].fault = "none"
        /\ i \in lastPass.reached
        /\ Strip(modalForm[i].value) # <<>>
        /\ answer(FillerOf(fillCfg).qa, _get_label_for(modalForm[i]), "text")
               \notin {<<>>, modalForm[i].value}

IsCheckbox(f) == f.kind = "checkbox"

ClickedIn(ops, i) == \E k \in 1..Len(ops) : ops[k] = <<"click", i>>

\* the label of the checkbox holds a consent keyword
IsConsentCheckbox(f) ==
    \E kw \in {<<"a", "g", "r", "e", "e">>, <<"c", "o", "n", "s", "e", "n", "t">>, <<"a", "c", "k", "n", "o", "w", "l", "e", "d", "g", "e">>, <<"c", "o", "n", "f", "i", "r", "m">>} :
        Contains(kw, Lower(_get_label_for(f)))

\* C18: over any sequence of page-fill passes a checkbox is clicked only
\* when it is unchecked and its label holds one of agree, consent,
\* acknowledge, confirm; a checked checkbox is never unchecked and a
\* checkbox without a consent keyword is never clicked or changed.
C18_CheckboxesAreOnlyCheckedOnConsent ==
    [][\A i \in 1..Len(modalForm) :
          IsCheckbox(modalForm[i])
              => /\ modalForm[i].selected => modalForm'[i].selected
                 /\ (\/ ClickedIn(lastPass'.ops, i)
                     \/ modalForm'[i].selected # modalForm[i].selected)
                       => /\ ~modalForm[i].selected
                          /\ IsConsentCheckbox(modalForm[i])]_vars

\* a pass has clicked the consent checkbox of a page and has gone past a
\* checked consent checkbox or an unchecked checkbox without keyword
C18_Witness ==
    /\ PassRan
    /\ \E i, j \in 1..Len(modalForm) :
        /\ IsCheckbox(modalForm[i]) /\ IsConsentCheckbox(modalForm[i])
        /\ ClickedIn(lastPass.ops, i) /\ modalForm[i].selected
        /\ IsCheckbox(modalForm[j]) /\ j \in lastPass.reached
        /\ modalForm[j].displayed /\ modalForm[j].fault = "none"
        /\ ~ClickedIn(lastPass.ops, j)
        /\ IsConsentCheckbox(modalForm[j]) = modalForm[j].selected

\* the field holds a value: a text, a chosen option, an uploaded path
HoldsValue(f) ==
    f.kind \in {"text", "textarea", "select", "file"} /\ Strip(f.value) # <<>>

TouchedIn(ops, i) == \E k \in 1..Len(ops) : ops[k][2] = i

\* C25: a page-fill pass is a no-op on every field that already holds a
\* value, of every kind: a pass, the first or a repeated one, performs no
\* operation on a filled text field, on a select with a chosen option or
\* on a file input that has received a path, and leaves its value as it was.
C25_PassIsNoOpOnFilledFields ==
    [][\A i \in 1..Len(modalForm) :
          HoldsValue(modalForm[i])
              => /\ modalForm'[i].value = modalForm[i].value
                 /\ ~TouchedIn(lastPass'.ops, i)]_vars

IsRadio(f) == f.kind = "radio"

\* the radios of the page that share the name of radio i (a radio that is
\* stale from the first read on is no longer part of the page)
GroupOf(form, i) ==
    {j \in 1..Len(form) :
        /\ IsRadio(form[j]) /\ form[j].name = form[i].name
        /\ form[j].fault # "stale_at_read"}

HasSelectedMember(form, i) == \E j \in GroupOf(form, i) : form[j].selected

\* C29: over any number of page-fill passes, no member of a radio group in
\* which some member is already selected is clicked, and the selection of
\* the group stays as it was.
C29_SelectedGroupIsLeftAlone ==
    [][\A i \in 1..Len(modalForm) :
          (IsRadio(modalForm[i]) /\ HasSelectedMember(modalForm, i))
              => /\ ~ClickedIn(lastPass'.ops, i)
                 /\ modalForm'[i].selected = modalForm[i].selected]_vars

\* the text of the label next to the radio
AdjacentText(f) ==
    IF f.sibling_label = Absent THEN <<>> ELSE Strip(f.sibling_label[1])

\* a pass has gone over a group whose selected member is not the one the
\* answer to the group's question names, and has clicked nothing
C29_Witness ==
    /\ PassRan
    /\ lastPass.ops = <<>>
    /\ Len(modalForm) = 2
    /\ \A i \in 1..2 : IsRadio(modalForm[i]) /\ modalForm[i].fault = "none"
    /\ modalForm[1].name = modalForm[2].name
    /\ modalForm[1].selected /\ ~modalForm[2].selected
    /\ lastPass.reached = {1, 2}
    /\ AdjacentText(modalForm[2])
          = answer(FillerOf(fillCfg).qa, _get_label_for(modalForm[1]), "boolean")

\* the answer wanted for the group of radio i: the boolean answer to the
\* label of the group's first member
DesiredAnswer(form, i) ==
    answer(FillerOf(fillCfg).qa,
           _get_label_for(form[Earliest(GroupOf(form, i))]), "boolean")

\* the radio has an adjacent label whose text holds the answer or is held
\* by it, case ignored
LabelOverlaps(f, ans) ==
    /\ AdjacentText(f) # <<>>
    /\ \/ Contains(Lower(ans), Lower(AdjacentText(f)))
       \/ Contains(Lower(AdjacentText(f)), Lower(ans))

\* C30: in an unselected radio group a member is clicked only if the text
\* of its own adjacent label overlaps the desired answer ('Yes' or 'No');
\* where no member's text overlaps, no member is clicked and the group
\* stays unselected.
C30_RadioClickedOnlyOnOverlap ==
    [][\A i \in 1..Len(modalForm) :
          (IsRadio(modalForm[i]) /\ modalForm[i].fault # "stale_at_read"
              /\ ~HasSelectedMember(modalForm, i))
              => /\ ClickedIn(lastPass'.ops, i)
                    => LabelOverlaps(modalForm[i], DesiredAnswer(modalForm, i))
                 /\ (\A j \in GroupOf(modalForm, i) :
                        ~LabelOverlaps(modalForm[j], DesiredAnswer(modalForm, i)))
                    => \A j \in GroupOf(modalForm, i) :
                          /\ ~ClickedIn(lastPass'.ops, j)
                          /\ ~modalForm'[j].selected]_vars

----------------------------------------------------------------------------
(* Claims about the run of fill_application (Spec).                        *)

\* no button of the page raises anything
HealthyPage == \A i \in 1..Len(buttons) : buttons[i].fault = "none"

\* a control that is present, displayed and enabled
Clickable(b) == b.displayed /\ b.enabled

\* the page has a clickable button with one of the texts
HasClickable(texts) ==
    \E i \in 1..Len(buttons) : \E k \in 1..Len(texts) :
        Contains(texts[k], buttons[i].text) /\ Clickable(buttons[i])

AdvanceTexts == <<<<"N", "e", "x", "t">>, <<"C", "o", "n", "t", "i", "n", "u", "e">>>>

Probing == pc \in {"submit", "next", "review"}

\* C1: at a step where both a Submit control (Submit application or Submit)
\* and an advance control (Next or Continue) are present, displayed and
\* enabled, the Submit control is the one clicked and the run returns True;
\* the advance control is not clicked at that step.  Stated for the pages
\* none of whose buttons raises.
C1_SubmitBeatsAdvance ==
    [][(/\ Probing
        /\ HealthyPage
        /\ HasClickable(SubmitTexts)
        /\ HasClickable(AdvanceTexts))
          => /\ clicked'.probe \in {"none", "submit"}
             /\ pc' \in {"submit", "done"}
             /\ pc' = "done" => result' = "True"]_vars

\* C2: the advance probe never clicks a button whose text is only Review;
\* such a button is clicked by the review probe alone.
C2_NextNeverClicksReview ==
    clicked.text = <<"R", "e", "v", "i", "e", "w">> => clicked.probe = "review"

\* C3 measures what is left of the run: the iterations, and the probes of
\* this iteration
Rank ==
    CASE pc = "fill" -> 4
      [] pc = "submit" -> 3
      [] pc = "next" -> 2
      [] pc = "review" -> 1
      [] OTHER -> 0

Measure == 4 * (MAX_STEPS - step) + Rank

\* C3: the run terminates after at most MAX_STEPS steps, with at most
\* MAX_STEPS page-fill passes and at most MAX_STEPS navigation clicks (every
\* step of the run uses up some of a bounded measure), and a run that has
\* advanced at every one of the MAX_STEPS steps returns False.
C3_TerminatesWithinMaxSteps ==
    /\ [](/\ step \in 0..MAX_STEPS
          /\ fills \in 0..MAX_STEPS
          /\ clicks \in 0..MAX_STEPS
          /\ Measure \in 0..(4 * MAX_STEPS + 4)
          /\ (pc = "done" /\ step = MAX_STEPS) => result = "False")
    /\ [][Measure' < Measure]_vars

\* the surface offered an advance control at every step: the run has used
\* up its iterations and returned False
C3_Witness ==
    /\ pc = "done"
    /\ step = MAX_STEPS
    /\ fills = MAX_STEPS
    /\ clicks = MAX_STEPS
    /\ result = "False"

\* no submit, advance or review control of the page is displayed and enabled
NoControlAvailable ==
    HealthyPage /\ \A i \in 1..Len(buttons) : ~Clickable(buttons[i])

\* C4: at a step where no submit, advance or review control is found and
\* clickable, the run returns False at that very step, with no further
\* page-fill pass and no click.  Stated for the pages none of whose buttons
\* raises.
C4_StuckReturnsFalseAtOnce ==
    /\ []((pc = "done" /\ NoControlAvailable) => result = "False")
    /\ [][(Probing /\ NoControlAvailable)
            => /\ fills' = fills
               /\ clicks' = clicks
               /\ pc' # "fill"]_vars

\* C5: every run ends by reporting True (Submitted) or False (Abandoned);
\* no exception escapes the run.
C5_RunReportsTrueOrFalse ==
    pc = "done" => result \in {"True", "False"}

\* the text of a Submit control
IsSubmitControl(text) == Contains(<<"S", "u", "b", "m", "i", "t">>, text)

\* a navigation control has just been clicked
JustClicked == clicks' # clicks

\* C33: fill_application returns True exactly when a Submit control was
\* clicked, and that click is the last operation of the run; a click on an
\* advance or review control never ends the run with True; at most one
\* navigation click happens per step.
C33_TrueIffSubmitWasClickedLast ==
    [][/\ result' = "True"
            => /\ JustClicked
               /\ IsSubmitControl(clicked'.text)
       /\ (JustClicked /\ IsSubmitControl(clicked'.text))
            => result' = "True" /\ pc' = "done"
       /\ (JustClicked /\ ~IsSubmitControl(clicked'.text))
            => result' = "running"
       /\ JustClicked
            => /\ clicks' = clicks + 1
               /\ pc' = "done" \/ step' = step + 1
       /\ result = "True"
            => UNCHANGED <<fills, clicks, clicked, modalForm, lastPass,
                           step>>]_vars

\* a run clicked an advance control at each of its first two steps and at
\* the third clicked Submit and returned True
C33_Witness ==
    /\ result = "True" /\ pc = "done"
    /\ step = 2 /\ clicks = 3 /\ fills = 3
    /\ clicked = [probe |-> "submit", text |-> <<"S", "u", "b", "m", "i", "t">>]

\* C28: when the modal is not located at a step (the wait times out), only
\* the fill pass of that step is given up: the pass mutates no field and
\* raises nothing, and the run goes on, at the same step, to the submit,
\* advance and review probes.
C28_MissingModalOnlyAbortsThePass ==
    [][(pc = "fill" /\ fills' = fills + 1 /\ ~lastPass'.modal_found)
          => /\ lastPass'.ops = <<>>
             /\ lastPass'.raised = "none"
             /\ pc' = "submit"
             /\ step' = step
             /\ result' = "running"]_vars

\* the modal was not found at a step, the field of the page was left empty,
\* and the run clicked Submit at that step
C28_Witness ==
    /\ lastPass.ran /\ ~lastPass.modal_found
    /\ modalForm = <<FirstNameInput>>
    /\ clicked.probe = "submit"
    /\ result = "True"

\* C37: in an unselected radio group, a member that has no adjacent label
\* text (no following-sibling label, or an empty one) is never clicked by
\* the radio policy.
C37_UnlabelledRadioIsNeverClicked ==
    [][\A i \in 1..Len(modalForm) :
          (IsRadio(modalForm[i]) /\ ~HasSelectedMember(modalForm, i)
              /\ AdjacentText(modalForm[i]) = <<>>)
              => ~ClickedIn(lastPass'.ops, i)]_vars

IsFileInput(f) == f.kind = "file"

\* the path the policy has for the input: the cover-letter path if the
\* label mentions cover, the CV path otherwise, resolved; none if missing
ResolvedPath(f) == AbsPath(UploadPath(FillerOf(fillCfg), f))

HasFileOnDisk(f) == ResolvedPath(f) # <<>> /\ ResolvedPath(f) \in ExistingPaths

SentTo(ops, i) == \E k \in 1..Len(ops) : ops[k] = <<"send_keys", i>>

\* C31: a pass sends a path to a file input only when the configured path
\* (cover-letter path if the label mentions cover, else CV path) is
\* non-empty and the resolved path exists on disk; an input whose path is
\* missing or does not exist receives nothing and keeps its value, raises
\* nothing, and the file inputs after it are still handled.
C31_FileIsSentOnlyIfItExists ==
    [][\A i \in 1..Len(modalForm) :
          (IsFileInput(modalForm[i]) /\ lastPass'.ran)
              => /\ SentTo(lastPass'.ops, i) => HasFileOnDisk(modalForm[i])
                 /\ (~HasFileOnDisk(modalForm[i]) /\ i \in lastPass'.reached)
                      => /\ ~TouchedIn(lastPass'.ops, i)
                         /\ modalForm'[i].value = modalForm[i].value
                         /\ lastPass'.raised = "none"
                         /\ \A j \in 1..Len(modalForm) :
                              IsFileInput(modalForm[j])
                                  => j \in lastPass'.reached]_vars

\* a pass over an input for the cover letter, whose configured file is not
\* on disk, and an input for the CV after it: only the CV was sent
C31_Witness ==
    /\ PassRan /\ Len(modalForm) = 2 /\ fillCfg = "rules"
    /\ IsFileInput(modalForm[1]) /\ IsFileInput(modalForm[2])
    /\ UploadPath(FillerOf(fillCfg), modalForm[1]) = <<"/", "h", "o", "m", "e", "/", "u", "/", "c", "o", "v", "e", "r", ".", "p", "d", "f">>
    /\ ~HasFileOnDisk(modalForm[1])
    /\ lastPass.reached = {1, 2}
    /\ lastPass.ops = <<<<"send_keys", 2>>>>
    /\ modalForm[2].value = <<"/", "h", "o", "m", "e", "/", "u", "/", "c", "v", ".", "p", "d", "f">>

\* what each strategy finds for the element, in the order of the claim:
\* the aria-label, the placeholder, the text of the label bound by id, of
\* the ancestor label, of the nearest preceding sibling label
Findings(f) ==
    <<IF Get(f.aria_label, <<>>) # <<>> THEN f.aria_label ELSE Absent,
      IF Get(f.placeholder, <<>>) # <<>> THEN f.placeholder ELSE Absent,
      IF Get(f.id, <<>>) # <<>> /\ f.label_for # Absent
      THEN Some(Strip(f.label_for[1])) ELSE Absent,
      IF f.ancestor_label # Absent
      THEN Some(Strip(f.ancestor_label[1])) ELSE Absent,
      IF f.preceding_label # Absent
      THEN Some(Strip(f.preceding_label[1])) ELSE Absent>>

FirstFinding(found) ==
    IF \A k \in 1..Len(found) : found[k] = Absent THEN <<>>
    ELSE found[CHOOSE k \in 1..Len(found) :
                  /\ found[k] # Absent
                  /\ \A j \in 1..(k - 1) : found[j] = Absent][1]

\* C32: _get_label_for returns what the first strategy that finds something
\* found, in the order aria-label, placeholder, label bound by id, ancestor
\* label, preceding sibling label, and the empty string when none finds
\* anything.
C32_LabelIsTheFirstFinding ==
    \A i \in 1..Len(modalForm) :
        _get_label_for(modalForm[i]) = FirstFinding(Findings(modalForm[i]))

\* a pass with the sample profile has written the first name into an input
\* with both an aria-label and a placeholder, and the phone number into one
\* whose id has no label and whose ancestor label comes before a sibling label
C32_Witness ==
    /\ PassRan /\ fillCfg = "sample" /\ Len(modalForm) = 2
    /\ Findings(modalForm[1])[1] # Absent /\ Findings(modalForm[1])[2] # Absent
    /\ modalForm[1].value = <<"J", "o", "h", "n">>
    /\ Findings(modalForm[2])[3] = Absent /\ modalForm[2].id # Absent
    /\ Findings(modalForm[2])[4] # Absent /\ Findings(modalForm[2])[5] # Absent
    /\ modalForm[2].value = <<"+", "9", "1", " ", "9", "9", "9", "9", "9", "9", "9", "9", "9", "9">>

----------------------------------------------------------------------------
(* Claims about _apply_to_job (ApplySpec).                                 *)

CallReturned == applyPc = "returned"

\* the call has ended: it returned or an exception left it
CallEnded == applyPc \in {"returned", "raised"}

Did(event) == \E k \in 1..Len(applyTrace) : applyTrace[k] = event

\* C19: a call of _apply_to_job that returns True has raised
\* applications_this_session by exactly one, and a call that returns False,
\* whatever the fault, has left it unchanged.
C19_CounterMovesIffApplied ==
    CallReturned
        => /\ applyResult = "True"
                => applications_this_session = countAtCall + 1
           /\ applyResult = "False"
                => applications_this_session = countAtCall

\* what precedes the creation of the FormFiller, in order
OpeningSteps ==
    <<"card_clicked", "pane_loaded", "button_found", "button_clicked",
      "modal_appeared">>

\* C20: the FormFiller is created and fill_application run only after the
\* detail pane has loaded, an Easy Apply button has been found and clicked
\* and the modal has appeared, in this order; a call that ends with one of
\* these steps failed has created no FormFiller and has returned False.
C20_FillOnlyAfterTheModalOpened ==
    /\ Did("filler_created")
        => SubSeq(applyTrace, 1, Len(OpeningSteps)) = OpeningSteps
    /\ (CallEnded /\ Did("card_clicked") /\ ~Did("modal_appeared"))
        => ~Did("filler_created") /\ applyResult = "False"

\* fill_application has returned False, or a step of the attempt has raised
AttemptFailed == applyPc \in {"failed", "handler"}

\* C35: _apply_to_job never propagates an exception: whenever
\* fill_application returns False or a step of the attempt raises,
\* _close_modal is attempted and the call returns False, also when
\* dismissing the modal itself faults.
C35_NoExceptionLeavesTheCall ==
    [][/\ applyPc' # "raised"
       /\ (AttemptFailed /\ CallEnded')
            => /\ applyTrace'[Len(applyTrace')] \in
                    {"_close_modal", "log_application"}
               /\ Did("_close_modal")'
               /\ applyResult' = "False"]_vars

\* fill_application has run to completion: it returned True or False
FillReturned == applyPc \in {"applied", "failed"}

AppliedRows == {k \in 1..Len(csvRows) : csvRows[k] = "Applied"}

\* C36: a call in which fill_application runs to completion appends exactly
\* one row to the log, Applied if it returned True and Failed if it
\* returned False; no other step of a call appends a row; so the number of
\* Applied rows of the session equals applications_this_session.
C36_OneRowPerCompletedForm ==
    [][/\ FillReturned
            => csvRows' = Append(csvRows, IF applyPc = "applied"
                                          THEN "Applied" ELSE "Failed")
       /\ ~FillReturned => csvRows' = csvRows
       /\ CallEnded' => Cardinality(AppliedRows') = applications_this_session']_vars

----------------------------------------------------------------------------
(* Claims about the application log (LogSpec).                             *)

\* the text begins with the given text
StartsWithText(text, start) ==
    Len(start) <= Len(text) /\ SubSeq(text, 1, Len(start)) = start

\* C21: after any sequence of ensure_csv and log_application calls on one
\* path, nobody else touching the file, the file is the header row followed
\* by one data row per log_application call that returned, in call order;
\* and ensure_csv never truncates or rewrites a file that exists.
C21_LogIsHeaderThenOneRowPerCall ==
    [][(logOps' # logOps)
          => /\ ~outside'
                => /\ csvFile'.exists
                   /\ ReadRows(csvFile'.text) = <<FIELDNAMES>> \o loggedRows'
                   /\ csvFile.exists
                        => StartsWithText(csvFile'.text, csvFile.text)
             /\ (logOps'[Len(logOps')] = "ensure_csv" /\ csvFile.exists)
                => csvFile' = csvFile]_vars

\* two applications were logged with an ensure_csv between them, the first
\* under a title with a comma, a quote and a line break, and the file
\* reads as the header and the two rows
C21_Witness ==
    /\ ~outside
    /\ logOps = <<"log_application", "ensure_csv", "log_application">>
    /\ Len(loggedRows) = 2
    /\ loggedRows[1][1] = <<"I", "R", ",", "\"", "\n", "x">>
    /\ loggedRows[2][5] = <<"F", "a", "i", "l", "e", "d">>
    /\ ReadRows(csvFile.text) = <<FIELDNAMES>> \o loggedRows

\* the date of a data row where its Date Applied parses
DateApplied(record) ==
    IF Len(record) >= 3 THEN strptime(record[3]) ELSE Absent

\* the data rows applied to not more than seven days before the summary
RecentRows(records, t) ==
    {k \in 2..Len(records) :
        /\ DateApplied(records[k]) # Absent
        /\ ~Before(DateApplied(records[k])[1], DaysAgo(t, 7))}

RECURSIVE SumOf(_, _)
SumOf(counts, keys) ==
    IF keys = {} THEN 0
    ELSE LET key == CHOOSE x \in keys : TRUE
         IN  counts[key] + SumOf(counts, keys \ {key})

\* C22: weekly_summary counts in total_applied exactly the rows whose Date
\* Applied parses and is not older than seven days before now;
\* total_responses is at most total_applied, the counts of by_status sum to
\* total_applied, and a log without data rows gives 0.
C22_SummaryCountsTheRecentRows ==
    (summary.done /\ csvFile.exists)
        => \E records \in {ReadRows(csvFile.text)} :
            /\ summary.raised = "none"
            /\ summary.total_applied
                    = Cardinality(RecentRows(records, summary.at))
            /\ summary.total_responses <= summary.total_applied
            /\ SumOf(summary.by_status, DOMAIN summary.by_status)
                    = summary.total_applied
            /\ Len(records) <= 1 => summary.total_applied = 0

\* the step is a call of log_application that returned
LogReturned ==
    /\ logOps' # logOps
    /\ logOps'[Len(logOps')] = "log_application"
    /\ loggedRows' # loggedRows

\* C39: after every call of log_application the file starts with the header
\* row, for any interleaving of ensure_csv, log_application and
\* weekly_summary with the file absent or removed between calls: the cache
\* of initialised paths never causes a file to be created without header.
C39_LogStartsWithTheHeader ==
    [][LogReturned
          => /\ csvFile'.exists
             /\ StartsWithText(csvFile'.text, WriteRow(FIELDNAMES))]_vars

----------------------------------------------------------------------------
(* Claims about a session (RunSpec).                                       *)

SessionOver == runPc = "done"

\* C23: in dry-run mode no application is ever submitted: run() starts no
\* application attempt, no FormFiller is run, and
\* applications_this_session stays 0 for the whole session.
C23_DryRunAppliesToNothing ==
    runCfg.dry_run
        => /\ attempts = 0
           /\ fillers = 0
           /\ applications_this_session = 0

\* a dry run with two titles, two locations and a cap of two logged in and
\* came to its end without an attempt
C23_Witness ==
    /\ runCfg.dry_run /\ runCfg.max_applications = 2
    /\ Len(SearchPairs(runCfg)) = 4
    /\ loggedIn
    /\ SessionOver /\ exitCode = 0
    /\ attempts = 0

\* C24: in dry-run mode the bot still logs in and loads the search page for
\* each configured job title and location, in the order of run().
C24_DryRunStillSearches ==
    (runCfg.dry_run /\ SessionOver /\ exitCode = 0)
        => /\ loggedIn
           /\ searches = SearchPairs(runCfg)

\* an application attempt has just been started
AttemptStarted == attempts' # attempts

\* C34: in every state of a session applications_this_session is at most
\* max_applications, and no call of _apply_to_job is started once the
\* counter has reached max_applications, whatever the titles, locations,
\* pages and cards.
C34_CounterStaysWithinTheCap ==
    [][/\ applications_this_session' <= max_applications'
       /\ AttemptStarted => applications_this_session < max_applications]_vars

\* the cap of two was reached on the second page of the first search, after
\* an attempt that did not count, and the session ended without the
\* searches still to come
C34_Witness ==
    /\ SessionOver /\ exitCode = 0
    /\ max_applications = 2 /\ applications_this_session = 2
    /\ attempts = 3
    /\ Len(searches) = 1 /\ Len(SearchPairs(runCfg)) > 1
    /\ resultsPage = 2

\* _search_and_apply is under way
Searching == runPc \in {"page", "card", "next_page"}

\* C38: on a results surface with finitely many pages _search_and_apply
\* terminates; its loop ends when the next-page control is absent or
\* disabled and when the session cap is reached, and each iteration either
\* advances to a new results page or ends the loop.
C38_SearchAndApplyTerminates ==
    /\ Searching ~> ~Searching
    /\ [][/\ (runPc = "page"
                /\ applications_this_session >= max_applications)
               => ~Searching'
          /\ runPc = "next_page"
               => \/ ~Searching' /\ resultsPage' = resultsPage
                  \/ runPc' = "page" /\ resultsPage' = resultsPage + 1]_vars

\* a search went over two pages of results and ended below the cap, for
\* want of a next page
C38_Witness ==
    /\ runPc = "run" /\ searchAt = 2
    /\ Len(searches) = 1
    /\ resultsPage = 2
    /\ attempts = 2
    /\ applications_this_session < max_applications

============================================================================
